---- MODULE Spec2Model ----
(***************************************************************************)
(* slskrr: the in-memory download registry (store.Store), the background   *)
(* reconciliation loop of the SABnzbd facade (Handler.SyncDownloads /      *)
(* Handler.syncOnce) and the mapping of slskd transfer-state strings onto  *)
(* the registry's status lifecycle.                                        *)
(*                                                                         *)
(* Every Store method holds s.mu for its whole body, so each method is one *)
(* atomic action.  syncOnce is not atomic: it takes one All() snapshot and *)
(* then calls UpdateTransfer once per snapshot entry, so other operations  *)
(* interleave between the snapshot and each write.                         *)
(***************************************************************************)
EXTENDS Integers, Sequences, FiniteSets, TLC

(***************************************************************************)
(* Bounds of the model.                                                    *)
(***************************************************************************)
NumIds == 2              \* size of the id space generateID draws from
MaxGroups == 1           \* user groups in one GetAllDownloads response
MaxFrags == 3            \* fragments concatenated into one state string
MaxLive == 1             \* Spec, SpecStore: entries live at the same time
MaxRetryCalls == 1       \* Spec, SpecPair: IncrementRetry calls per entry
MaxClock == 2            \* SpecStore: time.Now() ranges over 1..MaxClock
StoreMaxRetryCalls == 5  \* SpecStore: IncrementRetry calls per entry
PairMaxLive == 2         \* SpecPair: entries live at the same time
CopyMaxLive == 1         \* SpecCopy: entries live at the same time
MaxPolls == 2            \* SpecSearch: status polls of one SearchAndWait
MaxResponses == 2         \* SpecSearch: responses in one search result
MaxOwnerRunes == 1       \* runes in the owner of a token
MaxPathRunes == 2        \* runes in the path of a token
NumProcs == 3            \* goroutines that call the registry
MaxFileSteps == 120      \* a poll reports up to this many hundreds of files
MaxByteStep == 40        \* Progress is read for up to this many steps of bytes

(***************************************************************************)
(* Program constants.                                                      *)
(***************************************************************************)
DefaultMaxRetries == 3

StatusQueued == "Queued"
StatusDownloading == "Downloading"
StatusCompleted == "Completed"
StatusFailed == "Failed"
Status == {StatusQueued, StatusDownloading, StatusCompleted, StatusFailed}
Terminal == {StatusCompleted, StatusFailed}

\* time.Time{}: the zero time, for which IsZero() is true
ZeroTime == 0

(***************************************************************************)
(* Strings that are searched by strings.Contains are sequences of          *)
(* characters.                                                             *)
(***************************************************************************)
SubCompleted == <<"C","o","m","p","l","e","t","e","d">>
SubSucceeded == <<"S","u","c","c","e","e","d","e","d">>
SubInProgress == <<"I","n","P","r","o","g","r","e","s","s">>
FragSep == <<","," ">>
FragErrored == <<"E","r","r","o","r","e","d">>
FragQueued == <<"Q","u","e","u","e","d">>
FragRemotely == <<"R","e","m","o","t","e","l","y">>
FragComp == <<"C","o","m","p">>
FragLeted == <<"l","e","t","e","d">>
FragLower == <<"c","o","m","p","l","e","t","e","d">>

\* state strings slskd reports (Transfer.State), and one compound that holds
\* both "Completed" and "InProgress"
StInProgress == SubInProgress
StCompletedSucceeded == SubCompleted \o FragSep \o SubSucceeded
StCompletedErrored == SubCompleted \o FragSep \o FragErrored
StQueuedRemotely == FragQueued \o FragSep \o FragRemotely
StCompletedInProgress == SubCompleted \o FragSep \o SubInProgress

(***************************************************************************)
(* Input domains.                                                          *)
(***************************************************************************)
IDs == 1..NumIds
Usernames == {"u1", "u2"}
Filenames == {"dir/file.mkv"}
Sizes == {1000}
Categories == {"radarr"}
ByteCounts == {400, 1000}

\* slskd.Transfer as syncOnce reads it: Filename, State, BytesTransferred
BackendFiles ==
    { [Filename |-> f, State |-> sb[1], BytesTransferred |-> sb[2]] :
        f \in Filenames,
        sb \in { <<StInProgress, 400>>, <<StCompletedSucceeded, 1000>>,
                 <<StCompletedErrored, 400>>, <<StQueuedRemotely, 0>>,
                 <<StCompletedInProgress, 400>> } }

\* slskd.UserTransferGroup with one directory holding one file
BackendGroups ==
    { [Username |-> u,
       Directories |-> << [Directory |-> "dir", Files |-> <<t>>] >>] :
        u \in Usernames, t \in BackendFiles }

SeqsUpTo(S, n) == UNION { [1..k -> S] : k \in 0..n }

\* the responses GetAllDownloads can decode
BackendResponses == SeqsUpTo(BackendGroups, MaxGroups)

\* the fragments state strings are built from in the mapping specification
Fragments == { SubCompleted, SubSucceeded, SubInProgress, FragSep,
               FragComp, FragLeted, FragLower }

\* slskd.SearchResponse, by the peer that sent it
SearchResponses == { [Username |-> u] : u \in Usernames }

\* SearchResult.Responses, in the order the backend lists them
ResponseLists == SeqsUpTo(SearchResponses, MaxResponses)

VARIABLES
    downloads,      \* Store.downloads: id -> Download, for the live ids
    clock,          \* the wall clock read by time.Now()
    syncPc,         \* syncOnce: "idle" between passes, "loop" inside the range loop
    syncTransfers,  \* syncOnce: the transfers map, transferKey -> Transfer
    syncAll,        \* syncOnce: the part of the All() snapshot still to visit
    lastOp,         \* the operation that made the last step, its arguments,
                    \* its return value and the entry it addressed before it ran
    mapState,       \* state-string mapping: the string given
    mapStatus,      \* state-string mapping: the status returned
    syncCtxDone,    \* SyncDownloads: its ctx has been cancelled
    held,           \* the pointers a caller got from its last query of the
                    \* registry (Get, FindByFile, Queue, History, All)
    searchPc,       \* SearchAndWait: "idle", "select", "complete", "returned"
    ctxDone,        \* SearchAndWait: the caller's ctx has been cancelled
    deadline,       \* SearchAndWait: time.After(timeout) has fired
    timer,          \* SearchAndWait: the poll timer, "stopped", "armed", "fired"
    searchCalls,    \* the calls made to slskd for the search, in order
    deleteTask,     \* the goroutine that runs DeleteSearch: "none", "started",
                    \* "done"
    searchRet,      \* what SearchAndWait returned
    delayPoll,      \* the last poll of a running search: the file count it
                    \* reported and the delay the timer was reset to
    progRead,       \* the last Progress() read: the entry and the value
    lockPc,         \* per goroutine: "idle", "blocked" in Lock or RLock,
                    \* "critical" between the lock and the deferred unlock,
                    \* "backend" in a call to slskd
    lockOp,         \* per goroutine: the Store method it is in
    muWriter,       \* Store.mu: a writer holds the lock
    muReaders,      \* Store.mu: the number of readers that hold the lock
    muPending,      \* Store.mu: the number of Lock calls that wait
    tokCall,        \* the call of the token codec in progress: its input,
                    \* the token and what DecodeToken returned
    addResp,        \* the last addurl request: the handler's APIKey, the
                    \* request, the call to slskd and the response written
    flight,         \* the calls to slskd that SearchAndWait has issued and
                    \* that have not returned, each with the line that made
                    \* it and the answer slskd gives
    listed          \* what a caller that reads the queue and the history
                    \* one after the other was given: for each of the two
                    \* calls, in order, the ids returned and the status
                    \* every live entry had when the call ran

vars == <<downloads, clock, syncPc, syncTransfers, syncAll, lastOp,
          mapState, mapStatus, syncCtxDone, held, searchPc, ctxDone,
          deadline, timer, searchCalls, deleteTask, searchRet,
          delayPoll, progRead, lockPc, lockOp, muWriter, muReaders,
          muPending, tokCall, addResp, flight, listed>>

storeVars == <<downloads, clock>>
syncVars == <<syncPc, syncTransfers, syncAll, syncCtxDone>>
mapVars == <<mapState, mapStatus>>
calcVars == <<delayPoll, progRead>>
lockVars == <<lockPc, lockOp, muWriter, muReaders, muPending>>
tokenVars == <<tokCall>>
addVars == <<addResp>>
flightVars == <<flight>>
listVars == <<listed>>
sideVars == <<flightVars, listVars>>
restVars == <<calcVars, lockVars, tokenVars, addVars, sideVars>>
searchVars == <<searchPc, ctxDone, deadline, timer, searchCalls, deleteTask,
                searchRet>>

(***************************************************************************)
(* Pure functions.                                                         *)
(***************************************************************************)

\* strings.Contains(s, substr)
Contains(s, substr) ==
    \E i \in 0..(Len(s) - Len(substr)) :
        SubSeq(s, i + 1, i + Len(substr)) = substr

\* MapState with the "InProgress" case tried before the "Completed" cases
MapStateInProgressFirst(state) ==
    IF Contains(state, SubInProgress)
        THEN StatusDownloading
    ELSE IF Contains(state, SubCompleted) /\ Contains(state, SubSucceeded)
        THEN StatusCompleted
    ELSE IF Contains(state, SubCompleted)
        THEN StatusFailed
    ELSE StatusQueued

\* the switch of syncOnce: the first case that matches decides
MapState(state) ==
    IF Contains(state, SubCompleted) /\ Contains(state, SubSucceeded)
        THEN StatusCompleted
    ELSE IF Contains(state, SubCompleted)
        THEN StatusFailed
    ELSE IF Contains(state, SubInProgress)
        THEN StatusDownloading
    ELSE StatusQueued

\* Progress that forgets the factor 100
ProgressFraction(d) ==
    IF d.Size = 0 THEN 0 ELSE d.BytesDownloaded \div d.Size

\* Download.Progress, on byte counts that divide exactly
Progress(d) ==
    IF d.Size = 0 THEN 0 ELSE (d.BytesDownloaded * 100) \div d.Size

\* transferKey
TransferKey(username, filename) == <<username, filename>>

\* the three nested loops of syncOnce, which fill the transfers map in
\* order: a later file with the same key replaces an earlier one
RECURSIVE AddFiles(_, _, _)
AddFiles(transfers, username, files) ==
    IF files = <<>> THEN transfers
    ELSE LET t == Head(files)
             key == TransferKey(username, t.Filename)
             rest == [k \in (DOMAIN transfers) \ {key} |-> transfers[k]]
         IN AddFiles(rest @@ (key :> t), username, Tail(files))

RECURSIVE AddDirectories(_, _, _)
AddDirectories(transfers, username, dirs) ==
    IF dirs = <<>> THEN transfers
    ELSE AddDirectories(AddFiles(transfers, username, Head(dirs).Files),
                        username, Tail(dirs))

RECURSIVE BuildTransfers(_, _)
BuildTransfers(transfers, groups) ==
    IF groups = <<>> THEN transfers
    ELSE BuildTransfers(
             AddDirectories(transfers, Head(groups).Username,
                            Head(groups).Directories),
             Tail(groups))

EmptyMap == [k \in {} |-> 0]

\* Store.Queue, Store.History, Store.All: copies of the entries, in the
\* unspecified order of Go's map iteration, here as sets
Queue ==
    { downloads[id] : id \in { i \in DOMAIN downloads :
        downloads[i].Status = StatusQueued
        \/ downloads[i].Status = StatusDownloading } }

\* History that leaves the failed entries out
HistoryCompletedOnly ==
    { downloads[id] : id \in { i \in DOMAIN downloads :
        downloads[i].Status = StatusCompleted } }

History ==
    { downloads[id] : id \in { i \in DOMAIN downloads :
        downloads[i].Status = StatusCompleted
        \/ downloads[i].Status = StatusFailed } }

All == { downloads[id] : id \in DOMAIN downloads }

\* the fields of a copy that syncOnce reads: ID, Username, Filename, Status
SyncView(dl) ==
    [ID |-> dl.ID, Username |-> dl.Username, Filename |-> dl.Filename,
     Status |-> dl.Status]

\* the orders in which range over a map can yield a set of entries
Orderings(S) ==
    { s \in [1..Cardinality(S) -> S] : \A e \in S : \E i \in DOMAIN s : s[i] = e }

\* the entry with this id before an operation, as a sequence of length <= 1
Lookup(id) == IF id \in DOMAIN downloads THEN <<downloads[id]>> ELSE <<>>

Op(op, id, ret, before) ==
    [op |-> op, id |-> id, ret |-> ret, before |-> before]

\* SearchAndWait has not returned
NoReturn == [err |-> "none", responses |-> <<>>]

(***************************************************************************)
(* The registry after New().                                               *)
(***************************************************************************)
Init ==
    /\ downloads = EmptyMap
    /\ clock = 1
    /\ syncPc = "idle"
    /\ syncTransfers = EmptyMap
    /\ syncAll = <<>>
    /\ lastOp = Op("New", 0, FALSE, <<>>)
    /\ mapState = <<>>
    /\ mapStatus = MapState(<<>>)
    /\ syncCtxDone = FALSE
    /\ held = <<>>
    /\ searchPc = "idle"
    /\ ctxDone = FALSE
    /\ deadline = FALSE
    /\ timer = "stopped"
    /\ searchCalls = <<>>
    /\ deleteTask = "none"
    /\ searchRet = NoReturn
    /\ delayPoll = <<>>
    /\ progRead = <<>>
    /\ lockPc = [p \in 1..NumProcs |-> "idle"]
    /\ lockOp = [p \in 1..NumProcs |-> "none"]
    /\ muWriter = FALSE
    /\ muReaders = 0
    /\ muPending = 0
    /\ tokCall = <<>>
    /\ addResp = <<>>
    /\ flight = {}
    /\ listed = <<>>

\* time passes
Tick ==
    /\ clock' = clock + 1
    /\ lastOp' = Op("Tick", 0, FALSE, <<>>)
    /\ UNCHANGED <<downloads, syncVars, mapVars, restVars, held, searchVars>>

\* generateID: eight bytes from crypto/rand, hex-encoded; any id of the id
\* space can come out, one that is live included
generateID == IDs

\* Store.Add, as a function of the map and of the id generateID returned
AddMap(id, username, filename, size, category) ==
    [i \in (DOMAIN downloads) \cup {id} |->
        IF i = id
        THEN [ID |-> id, Username |-> username, Filename |-> filename,
              Size |-> size, BytesDownloaded |-> 0,
              Category |-> category, Status |-> StatusQueued,
              AddedAt |-> clock, CompletedAt |-> ZeroTime,
              Retries |-> 0, MaxRetries |-> DefaultMaxRetries,
              TransferID |-> ""]
        ELSE downloads[i]]

\* Store.Add
Add(username, filename, size, category) ==
    \E id \in generateID :
        /\ downloads' = AddMap(id, username, filename, size, category)
        /\ lastOp' = Op("Add", id, TRUE, Lookup(id))
        /\ UNCHANGED <<clock, syncVars, mapVars, restVars, held, searchVars>>

\* UpdatedEntry that stamps CompletedAt on every terminal status
UpdatedEntryAlwaysStamps(dl, bytesDownloaded, status) ==
    [dl EXCEPT
        !.BytesDownloaded = bytesDownloaded,
        !.Status = status,
        !.CompletedAt =
            IF status = StatusCompleted \/ status = StatusFailed
            THEN clock ELSE dl.CompletedAt]

\* UpdatedEntry that never lowers BytesDownloaded
UpdatedEntryKeepsMaxBytes(dl, bytesDownloaded, status) ==
    [dl EXCEPT
        !.BytesDownloaded = IF bytesDownloaded < dl.BytesDownloaded
                            THEN dl.BytesDownloaded ELSE bytesDownloaded,
        !.Status = status,
        !.CompletedAt =
            IF (status = StatusCompleted \/ status = StatusFailed)
               /\ dl.CompletedAt = ZeroTime
            THEN clock ELSE dl.CompletedAt]

\* UpdatedEntry that takes the bytes of a finished transfer for its size
UpdatedEntrySetsSize(dl, bytesDownloaded, status) ==
    [dl EXCEPT
        !.BytesDownloaded = bytesDownloaded,
        !.Status = status,
        !.Size = IF status = StatusCompleted \/ status = StatusFailed
                 THEN bytesDownloaded ELSE dl.Size,
        !.CompletedAt =
            IF (status = StatusCompleted \/ status = StatusFailed)
               /\ dl.CompletedAt = ZeroTime
            THEN clock ELSE dl.CompletedAt]

\* UpdatedEntry that starts the retries afresh when the entry is queued again
UpdatedEntryResetsRetries(dl, bytesDownloaded, status) ==
    [dl EXCEPT
        !.BytesDownloaded = bytesDownloaded,
        !.Status = status,
        !.Retries = IF status = StatusQueued THEN 0 ELSE dl.Retries,
        !.CompletedAt =
            IF (status = StatusCompleted \/ status = StatusFailed)
               /\ dl.CompletedAt = ZeroTime
            THEN clock ELSE dl.CompletedAt]

\* the entry UpdateTransfer leaves behind
UpdatedEntry(dl, bytesDownloaded, status) ==
    [dl EXCEPT
        !.BytesDownloaded = bytesDownloaded,
        !.Status = status,
        !.CompletedAt =
            IF (status = StatusCompleted \/ status = StatusFailed)
               /\ dl.CompletedAt = ZeroTime
            THEN clock ELSE dl.CompletedAt]

\* UpdateTransferMap that creates the entry when the id is not live
UpdateTransferMapUpsert(id, bytesDownloaded, status) ==
    [i \in (DOMAIN downloads) \cup {id} |->
        IF i # id THEN downloads[i]
        ELSE IF id \in DOMAIN downloads
        THEN UpdatedEntry(downloads[id], bytesDownloaded, status)
        ELSE [ID |-> id, Username |-> "", Filename |-> "", Size |-> 0,
              BytesDownloaded |-> bytesDownloaded, Category |-> "",
              Status |-> status, AddedAt |-> ZeroTime,
              CompletedAt |-> ZeroTime, Retries |-> 0, MaxRetries |-> 0,
              TransferID |-> ""]]

\* Store.UpdateTransfer, as a function of the map
UpdateTransferMap(id, bytesDownloaded, status) ==
    IF id \notin DOMAIN downloads
    THEN downloads
    ELSE [downloads EXCEPT
            ![id] = UpdatedEntry(downloads[id], bytesDownloaded, status)]

\* Store.UpdateTransfer called by any caller of the registry
UpdateTransfer(id, bytesDownloaded, status) ==
    /\ downloads' = UpdateTransferMap(id, bytesDownloaded, status)
    /\ lastOp' = Op("UpdateTransfer", id, FALSE, Lookup(id))
    /\ UNCHANGED <<clock, syncVars, mapVars, restVars, held, searchVars>>

\* RetryAllowed with >= for >
RetryAllowedOffByOne(dl) == ~(dl.Retries >= dl.MaxRetries)

\* what IncrementRetry returns for an entry whose Retries it has bumped
RetryAllowed(dl) == ~(dl.Retries > dl.MaxRetries)

\* RetriedEntry that forgets to zero BytesDownloaded
RetriedEntryKeepsBytes(dl) ==
    LET bumped == [dl EXCEPT !.Retries = dl.Retries + 1]
    IN IF ~(bumped.Retries > bumped.MaxRetries)
       THEN [bumped EXCEPT !.Status = StatusQueued,
                           !.CompletedAt = ZeroTime]
       ELSE bumped

\* the entry IncrementRetry leaves behind
RetriedEntry(dl) ==
    LET bumped == [dl EXCEPT !.Retries = dl.Retries + 1]
    IN IF RetryAllowed(bumped)
       THEN [bumped EXCEPT !.Status = StatusQueued,
                           !.BytesDownloaded = 0,
                           !.CompletedAt = ZeroTime]
       ELSE bumped

\* Store.IncrementRetry
IncrementRetry(id) ==
    /\ downloads' =
          IF id \notin DOMAIN downloads THEN downloads
          ELSE [downloads EXCEPT ![id] = RetriedEntry(downloads[id])]
    /\ lastOp' = Op("IncrementRetry", id,
                    id \in DOMAIN downloads /\ RetryAllowed(downloads'[id]),
                    Lookup(id))
    /\ UNCHANGED <<clock, syncVars, mapVars, restVars, held, searchVars>>

\* Store.SetTransferID
SetTransferID(id, transferID) ==
    /\ downloads' =
          IF id \notin DOMAIN downloads THEN downloads
          ELSE [downloads EXCEPT ![id].TransferID = transferID]
    /\ lastOp' = Op("SetTransferID", id, FALSE, Lookup(id))
    /\ UNCHANGED <<clock, syncVars, mapVars, restVars, held, searchVars>>

\* Remove that keeps the entries of the history
RemoveKeepsTerminal(id) ==
    /\ downloads' =
          IF id \in DOMAIN downloads /\ downloads[id].Status \in Terminal
          THEN downloads
          ELSE [i \in (DOMAIN downloads) \ {id} |-> downloads[i]]
    /\ lastOp' = Op("Remove", id, FALSE, Lookup(id))
    /\ UNCHANGED <<clock, syncVars, mapVars, restVars, held, searchVars>>

\* Store.Remove
Remove(id) ==
    /\ downloads' = [i \in (DOMAIN downloads) \ {id} |-> downloads[i]]
    /\ lastOp' = Op("Remove", id, FALSE, Lookup(id))
    /\ UNCHANGED <<clock, syncVars, mapVars, restVars, held, searchVars>>

(***************************************************************************)
(* The reconciler: one task, one pass at a time.                           *)
(***************************************************************************)

\* the ctx given to SyncDownloads is cancelled
SyncCtxCancel ==
    /\ ~syncCtxDone
    /\ syncCtxDone' = TRUE
    /\ lastOp' = Op("SyncCtxCancel", 0, FALSE, <<>>)
    /\ UNCHANGED <<storeVars, syncPc, syncTransfers, syncAll, mapVars, restVars, held,
                   searchVars>>

\* SyncDownloads, case <-ctx.Done() of its select: the task returns
SyncStop ==
    /\ syncPc = "idle"
    /\ syncCtxDone
    /\ syncPc' = "stopped"
    /\ lastOp' = Op("SyncStop", 0, FALSE, <<>>)
    /\ UNCHANGED <<storeVars, syncTransfers, syncAll, syncCtxDone, mapVars, restVars,
                   held, searchVars>>

\* SyncFetchFails after which the task returns
SyncFetchFailsStops ==
    /\ syncPc = "idle"
    /\ syncPc' = "stopped"
    /\ lastOp' = Op("SyncFetchFails", 0, FALSE, <<>>)
    /\ UNCHANGED <<storeVars, syncTransfers, syncAll, syncCtxDone, mapVars, restVars,
                   held, searchVars>>

\* SyncDownloads, case <-ticker.C, and syncOnce when GetAllDownloads fails
\* (it does whenever ctx is cancelled): the pass ends, the loop goes on
SyncFetchFails ==
    /\ syncPc = "idle"
    /\ lastOp' = Op("SyncFetchFails", 0, FALSE, <<>>)
    /\ UNCHANGED <<storeVars, syncVars, mapVars, restVars, held, searchVars>>

\* SyncDownloads, case <-ticker.C, and syncOnce up to the range statement:
\* the response is decoded, the transfers map is built and All() is called.
\* The response does not depend on the registry, so the fetch and the
\* snapshot are one step.  A request under a cancelled ctx fails.
SyncBegin ==
    /\ syncPc = "idle"
    /\ ~syncCtxDone
    /\ \E groups \in BackendResponses, snapshot \in Orderings({ SyncView(dl) : dl \in All }) :
          /\ syncTransfers' =
                IF snapshot = <<>> THEN EmptyMap
                ELSE BuildTransfers(EmptyMap, groups)
          /\ syncAll' = snapshot
          /\ syncPc' = IF snapshot = <<>> THEN "idle" ELSE "loop"
    /\ lastOp' = Op("SyncBegin", 0, FALSE, <<>>)
    /\ UNCHANGED <<storeVars, syncCtxDone, mapVars, restVars, held, searchVars>>

\* SyncOutcome without the skip of terminal entries
SyncOutcomeNoTerminalSkip(dl) ==
    IF TransferKey(dl.Username, dl.Filename) \notin DOMAIN syncTransfers
        THEN "SyncSkipNoMatch"
    ELSE "SyncUpdate"

\* what one iteration of the range loop does with the snapshot entry dl:
\* it skips a terminal entry, skips an entry without a transfer under its
\* key, and calls UpdateTransfer otherwise
SyncOutcome(dl) ==
    IF dl.Status = StatusCompleted \/ dl.Status = StatusFailed
        THEN "SyncSkipTerminal"
    ELSE IF TransferKey(dl.Username, dl.Filename) \notin DOMAIN syncTransfers
        THEN "SyncSkipNoMatch"
    ELSE "SyncUpdate"

\* SyncDownloads that marks an entry without a transfer as failed
SyncDownloadsFailsUnmatched(dl) ==
    IF SyncOutcome(dl) = "SyncUpdate"
    THEN LET t == syncTransfers[TransferKey(dl.Username, dl.Filename)]
         IN UpdateTransferMap(dl.ID, t.BytesTransferred, MapState(t.State))
    ELSE IF SyncOutcome(dl) = "SyncSkipNoMatch"
    THEN UpdateTransferMap(dl.ID, 0, StatusFailed)
    ELSE downloads

\* SyncDownloads of a registry that keeps one entry per key: of the entries
\* with the key of dl only the one with the least id is written
SyncDownloadsFirstOfKey(dl) ==
    IF /\ SyncOutcome(dl) = "SyncUpdate"
       /\ \A i \in DOMAIN downloads :
             (downloads[i].Username = dl.Username
              /\ downloads[i].Filename = dl.Filename) => dl.ID <= i
    THEN LET t == syncTransfers[TransferKey(dl.Username, dl.Filename)]
         IN UpdateTransferMap(dl.ID, t.BytesTransferred, MapState(t.State))
    ELSE downloads

\* the registry after that iteration
SyncDownloads(dl) ==
    IF SyncOutcome(dl) = "SyncUpdate"
    THEN LET t == syncTransfers[TransferKey(dl.Username, dl.Filename)]
         IN UpdateTransferMap(dl.ID, t.BytesTransferred, MapState(t.State))
    ELSE downloads

\* one iteration of the range loop of syncOnce; after the last one the pass
\* ends and the task waits for the next tick
SyncStep ==
    /\ syncPc = "loop"
    /\ syncAll # <<>>
    /\ LET dl == Head(syncAll)
           last == Tail(syncAll) = <<>>
       IN /\ downloads' = SyncDownloads(dl)
          /\ lastOp' = Op(SyncOutcome(dl), dl.ID, FALSE, Lookup(dl.ID))
          /\ syncAll' = Tail(syncAll)
          /\ syncPc' = IF last THEN "idle" ELSE "loop"
          /\ syncTransfers' = IF last THEN EmptyMap ELSE syncTransfers
    /\ UNCHANGED <<clock, syncCtxDone, mapVars, restVars, held, searchVars>>

SyncOps == {"SyncSkipTerminal", "SyncSkipNoMatch", "SyncUpdate"}

\* a guard that bounds the exploration
RetriesBelow(id, n) ==
    id \in DOMAIN downloads => downloads[id].Retries < n

(***************************************************************************)
(* Spec: the registry, used by any number of callers, together with the    *)
(* reconciler.                                                             *)
(***************************************************************************)
Next ==
    \/ \E u \in Usernames, f \in Filenames, s \in Sizes, c \in Categories :
          Add(u, f, s, c) /\ Cardinality(DOMAIN downloads') <= MaxLive
    \/ \E id \in IDs, b \in ByteCounts, st \in Status : UpdateTransfer(id, b, st)
    \/ \E id \in IDs : RetriesBelow(id, MaxRetryCalls) /\ IncrementRetry(id)
    \/ \E id \in IDs : Remove(id)
    \/ SyncCtxCancel
    \/ SyncStop
    \/ SyncFetchFails
    \/ SyncBegin
    \/ SyncStep

Spec == Init /\ [][Next]_vars

(***************************************************************************)
(* SpecStore: the registry on its own, one entry followed through time and *)
(* through more retries than MaxRetries allows.                            *)
(***************************************************************************)
NextStore ==
    \/ clock < MaxClock /\ Tick
    \/ \E u \in Usernames, f \in Filenames, s \in Sizes, c \in Categories :
          Add(u, f, s, c) /\ Cardinality(DOMAIN downloads') <= MaxLive
    \/ \E id \in IDs, b \in ByteCounts, st \in Status : UpdateTransfer(id, b, st)
    \/ \E id \in IDs : RetriesBelow(id, StoreMaxRetryCalls) /\ IncrementRetry(id)
    \/ \E id \in IDs : Remove(id)

SpecStore == Init /\ [][NextStore]_vars

(***************************************************************************)
(* SpecRetry: the registry written by the reconciler alone, one entry      *)
(* followed through more retries than MaxRetries allows.                   *)
(***************************************************************************)
NextRetry ==
    \/ \E u \in Usernames, f \in Filenames, s \in Sizes, c \in Categories :
          Add(u, f, s, c) /\ Cardinality(DOMAIN downloads') <= MaxLive
    \/ \E id \in IDs : RetriesBelow(id, StoreMaxRetryCalls) /\ IncrementRetry(id)
    \/ \E id \in IDs : SetTransferID(id, "t1")
    \/ \E id \in IDs : Remove(id)
    \/ SyncCtxCancel
    \/ SyncStop
    \/ SyncFetchFails
    \/ SyncBegin
    \/ SyncStep

SpecRetry == Init /\ [][NextRetry]_vars

(***************************************************************************)
(* SpecPair: the registry on its own, several entries live together.       *)
(***************************************************************************)
NextPair ==
    \/ \E u \in Usernames, f \in Filenames, s \in Sizes, c \in Categories :
          Add(u, f, s, c) /\ Cardinality(DOMAIN downloads') <= PairMaxLive
    \/ \E id \in IDs, b \in ByteCounts, st \in Status : UpdateTransfer(id, b, st)
    \/ \E id \in IDs : RetriesBelow(id, MaxRetryCalls) /\ IncrementRetry(id)
    \/ \E id \in IDs : Remove(id)

SpecPair == Init /\ [][NextPair]_vars

(***************************************************************************)
(* SpecSameKey: several entries live together, also under one key, and the *)
(* reconciler; the callers add and remove entries between the passes, not  *)
(* while a pass runs.                                                      *)
(***************************************************************************)
NextSameKey ==
    \/ \E u \in Usernames, f \in Filenames, s \in Sizes, c \in Categories :
          /\ syncPc = "idle"
          /\ Add(u, f, s, c)
          /\ Cardinality(DOMAIN downloads') <= PairMaxLive
    \/ \E id \in IDs : syncPc = "idle" /\ Remove(id)
    \/ SyncBegin
    \/ SyncStep

SpecSameKey == Init /\ [][NextSameKey]_vars

(***************************************************************************)
(* The queries of the registry.  Each returns pointers; a pointer is       *)
(* either to the object the registry keeps under an id or to an object of  *)
(* its own, and the caller can write through it.                           *)
(***************************************************************************)

\* the value a caller writes into BytesDownloaded of a record it was given
CallerMark == 7

\* CopyOf that hands out dl, the pointer the registry keeps
SamePointer(dl) == [shared |-> TRUE, id |-> dl.ID, obj |-> dl]

\* cp := *dl; &cp
CopyOf(dl) == [shared |-> FALSE, id |-> dl.ID, obj |-> dl]

\* *p, with the registry holding the objects dls
DerefIn(p, dls) ==
    IF p.shared /\ p.id \in DOMAIN dls THEN dls[p.id] ELSE p.obj

\* *p
Deref(p) == DerefIn(p, downloads)

\* Store.Get
Get(id) ==
    /\ held' = IF id \in DOMAIN downloads
               THEN <<CopyOf(downloads[id])>> ELSE <<>>
    /\ lastOp' = Op("Get", id, id \in DOMAIN downloads, Lookup(id))
    /\ UNCHANGED <<storeVars, syncVars, mapVars, restVars, searchVars>>

\* Store.FindByFile: the first match in the order of the map iteration
FindByFile(username, filename) ==
    LET matches == { dl \in All : dl.Username = username
                                  /\ dl.Filename = filename }
    IN /\ IF matches = {} THEN held' = <<>>
          ELSE \E dl \in matches : held' = <<CopyOf(dl)>>
       /\ lastOp' = Op("FindByFile", 0, matches # {}, <<>>)
       /\ UNCHANGED <<storeVars, syncVars, mapVars, restVars, searchVars>>

\* Store.Queue, Store.History and Store.All as calls: a slice of copies
ListQueue ==
    /\ held' \in Orderings({ CopyOf(dl) : dl \in Queue })
    /\ lastOp' = Op("ListQueue", 0, FALSE, <<>>)
    /\ UNCHANGED <<storeVars, syncVars, mapVars, restVars, searchVars>>

ListHistory ==
    /\ held' \in Orderings({ CopyOf(dl) : dl \in History })
    /\ lastOp' = Op("ListHistory", 0, FALSE, <<>>)
    /\ UNCHANGED <<storeVars, syncVars, mapVars, restVars, searchVars>>

ListAll ==
    /\ held' \in Orderings({ CopyOf(dl) : dl \in All })
    /\ lastOp' = Op("ListAll", 0, FALSE, <<>>)
    /\ UNCHANGED <<storeVars, syncVars, mapVars, restVars, searchVars>>

\* the caller writes into a record it was given
HeldWrite ==
    /\ \E i \in DOMAIN held :
          IF held[i].shared /\ held[i].id \in DOMAIN downloads
          THEN /\ downloads' = [downloads EXCEPT
                      ![held[i].id].BytesDownloaded = CallerMark]
               /\ held' = held
          ELSE /\ held' = [held EXCEPT ![i].obj.BytesDownloaded = CallerMark]
               /\ downloads' = downloads
    /\ lastOp' = Op("HeldWrite", 0, FALSE, <<>>)
    /\ UNCHANGED <<clock, syncVars, mapVars, restVars, searchVars>>

(***************************************************************************)
(* SpecCopy: the registry with a caller that queries it and keeps and      *)
(* changes what it was given.                                              *)
(***************************************************************************)
NextCopy ==
    \/ \E u \in Usernames, f \in Filenames, s \in Sizes, c \in Categories :
          Add(u, f, s, c) /\ Cardinality(DOMAIN downloads') <= CopyMaxLive
    \/ \E id \in IDs, b \in ByteCounts, st \in Status : UpdateTransfer(id, b, st)
    \/ \E id \in IDs : RetriesBelow(id, MaxRetryCalls) /\ IncrementRetry(id)
    \/ \E id \in IDs : Remove(id)
    \/ \E id \in IDs : Get(id)
    \/ \E u \in Usernames, f \in Filenames : FindByFile(u, f)
    \/ ListQueue
    \/ ListHistory
    \/ ListAll
    \/ HeldWrite

SpecCopy == Init /\ [][NextCopy]_vars

(***************************************************************************)
(* SpecLists: a caller reads the queue and the history, in either order,   *)
(* by two calls of the registry (handleQueue and handleHistory are two     *)
(* requests), while the reconciler and other callers use the registry.     *)
(* The entries that are live at the first call stay live until the second: *)
(* other callers add and remove other entries in between.                  *)
(***************************************************************************)

\* h.Store.Queue() (which = "Queue") or h.Store.History() (which =
\* "History"), each a call that holds the lock by itself; the second call
\* of a pair is the one the first was not
ListCall(which) ==
    /\ Len(listed) = 1 => listed[1].call # which
    /\ LET result ==
              [call |-> which,
               ids |-> { dl.ID : dl \in IF which = "Queue" THEN Queue
                                        ELSE History },
               status |-> [id \in DOMAIN downloads |-> downloads[id].Status]]
       IN listed' = IF Len(listed) = 1 THEN Append(listed, result)
                    ELSE <<result>>
    /\ lastOp' = Op("ListCall", 0, FALSE, <<>>)
    /\ UNCHANGED <<storeVars, syncVars, mapVars, held, searchVars, calcVars,
                   lockVars, tokenVars, addVars, flightVars>>

\* the ids that are live when the caller is between its two calls
BetweenCalls ==
    IF Len(listed) = 1 THEN DOMAIN listed[1].status ELSE {}

NextLists ==
    \/ \E u \in Usernames, f \in Filenames, s \in Sizes, c \in Categories :
          /\ Add(u, f, s, c)
          /\ Cardinality(DOMAIN downloads') <= MaxLive
          /\ lastOp'.id \notin BetweenCalls
    \/ \E id \in IDs : RetriesBelow(id, MaxRetryCalls) /\ IncrementRetry(id)
    \/ \E id \in IDs \ BetweenCalls : Remove(id)
    \/ SyncBegin
    \/ SyncStep
    \/ \E which \in {"Queue", "History"} : ListCall(which)

SpecLists == Init /\ [][NextLists]_vars

(***************************************************************************)
(* Client.SearchAndWait: one call.  It blocks in Search, in the select     *)
(* statement and in each GetSearch; the ctx can be cancelled and the two   *)
(* timers can fire at any of these points.  A request made under a ctx     *)
(* that is cancelled fails.                                                *)
(***************************************************************************)

\* one call to slskd: the endpoint, includeResponses, the context it runs
\* under, whether it succeeded, and the isComplete and responses it decoded
Call(call, includeResponses, ctx, ok, isComplete, responses) ==
    [call |-> call, includeResponses |-> includeResponses, ctx |-> ctx,
     ok |-> ok, isComplete |-> isComplete, responses |-> responses]

\* the status polls made so far
PollCount ==
    Cardinality({ i \in DOMAIN searchCalls :
        searchCalls[i].call = "GetSearch" /\ ~searchCalls[i].includeResponses })

\* the caller cancels ctx
CtxCancel ==
    /\ ~ctxDone
    /\ ctxDone' = TRUE
    /\ lastOp' = Op("CtxCancel", 0, FALSE, <<>>)
    /\ UNCHANGED <<storeVars, syncVars, mapVars, restVars, held, searchPc, deadline,
                   timer, searchCalls, deleteTask, searchRet>>

\* time.After(timeout) fires; the channel exists once Search has returned
DeadlineFires ==
    /\ searchPc \notin {"idle", "search", "returned"}
    /\ ~deadline
    /\ deadline' = TRUE
    /\ lastOp' = Op("DeadlineFires", 0, FALSE, <<>>)
    /\ UNCHANGED <<storeVars, syncVars, mapVars, restVars, held, searchPc, ctxDone,
                   timer, searchCalls, deleteTask, searchRet>>

\* the poll timer fires
TimerFires ==
    /\ timer = "armed"
    /\ timer' = "fired"
    /\ lastOp' = Op("TimerFires", 0, FALSE, <<>>)
    /\ UNCHANGED <<storeVars, syncVars, mapVars, restVars, held, searchPc, ctxDone,
                   deadline, searchCalls, deleteTask, searchRet>>

\* c.Search and the lines up to the for statement
Search ==
    /\ searchPc = "idle"
    /\ \E ok \in BOOLEAN :
          /\ ok => ~ctxDone
          /\ searchCalls' = Append(searchCalls,
                Call("Search", FALSE, "ctx", ok, FALSE, <<>>))
          /\ searchPc' = IF ok THEN "select" ELSE "returned"
          /\ timer' = IF ok THEN "armed" ELSE "stopped"
          /\ searchRet' = IF ok THEN NoReturn
                          ELSE [err |-> "search", responses |-> <<>>]
    /\ lastOp' = Op("Search", 0, FALSE, <<>>)
    /\ UNCHANGED <<storeVars, syncVars, mapVars, restVars, held, ctxDone, deadline,
                   deleteTask>>

\* select, case <-ctx.Done()
SelectCtxDone ==
    /\ searchPc = "select"
    /\ ctxDone
    /\ searchPc' = "returned"
    /\ timer' = "stopped"
    /\ searchRet' = [err |-> "ctx.Err", responses |-> <<>>]
    /\ lastOp' = Op("SelectCtxDone", 0, FALSE, <<>>)
    /\ UNCHANGED <<storeVars, syncVars, mapVars, restVars, held, ctxDone, deadline,
                   searchCalls, deleteTask>>

\* DeadlineReturn that reports the timeout as an error
DeadlineReturnTimedOut(ok, responses) ==
    [err |-> "timed out", responses |-> <<>>]

\* what the deadline case returns after its GetSearch
DeadlineReturn(ok, responses) ==
    IF ok THEN [err |-> "nil", responses |-> responses]
    ELSE [err |-> "get final search responses", responses |-> <<>>]

\* the context the deletion runs under, were it the caller's
DeleteContextOfCaller == "ctx"

\* the context the deletion runs under: context.Background()
DeleteContext == "Background"

\* select, case <-deadline
SelectDeadline ==
    /\ searchPc = "select"
    /\ deadline
    /\ \E ok \in BOOLEAN, responses \in ResponseLists :
          /\ ok => ~ctxDone
          /\ ~ok => responses = <<>>
          /\ searchCalls' = Append(searchCalls,
                Call("GetSearch", TRUE, "ctx", ok, FALSE, responses))
          /\ searchRet' = DeadlineReturn(ok, responses)
    /\ deleteTask' = "started"
    /\ searchPc' = "returned"
    /\ timer' = "stopped"
    /\ lastOp' = Op("SelectDeadline", 0, FALSE, <<>>)
    /\ UNCHANGED <<storeVars, syncVars, mapVars, restVars, held, ctxDone, deadline>>

\* PollOutcome that polls again after a poll that failed
PollOutcomeRetries(ok, isComplete) ==
    IF ~ok THEN [pc |-> "select", timer |-> "armed", ret |-> NoReturn]
    ELSE IF isComplete
        THEN [pc |-> "complete", timer |-> "stopped", ret |-> NoReturn]
    ELSE [pc |-> "select", timer |-> "armed", ret |-> NoReturn]

\* PollOutcome that resets the timer to no delay: the timer has fired when
\* the select is evaluated next
PollOutcomeNoDelay(ok, isComplete) ==
    IF ~ok
        THEN [pc |-> "returned", timer |-> "stopped",
              ret |-> [err |-> "get search", responses |-> <<>>]]
    ELSE IF isComplete
        THEN [pc |-> "complete", timer |-> "stopped", ret |-> NoReturn]
    ELSE [pc |-> "select", timer |-> "fired", ret |-> NoReturn]

\* where the timer case goes after its poll: it returns the error of a poll
\* that failed, goes on to fetch the responses of a job that is complete,
\* and resets the timer otherwise
PollOutcome(ok, isComplete) ==
    IF ~ok
        THEN [pc |-> "returned", timer |-> "stopped",
              ret |-> [err |-> "get search", responses |-> <<>>]]
    ELSE IF isComplete
        THEN [pc |-> "complete", timer |-> "stopped", ret |-> NoReturn]
    ELSE [pc |-> "select", timer |-> "armed", ret |-> NoReturn]

\* select, case <-timer.C, up to the second GetSearch
SelectTimer ==
    /\ searchPc = "select"
    /\ timer = "fired"
    /\ \E ok \in BOOLEAN, isComplete \in BOOLEAN :
          /\ ok => ~ctxDone
          /\ ~ok => ~isComplete
          /\ searchCalls' = Append(searchCalls,
                Call("GetSearch", FALSE, "ctx", ok, isComplete, <<>>))
          /\ searchPc' = PollOutcome(ok, isComplete).pc
          /\ timer' = PollOutcome(ok, isComplete).timer
          /\ searchRet' = PollOutcome(ok, isComplete).ret
    /\ lastOp' = Op("SelectTimer", 0, FALSE, <<>>)
    /\ UNCHANGED <<storeVars, syncVars, mapVars, restVars, held, ctxDone, deadline,
                   deleteTask>>

\* CompleteReturn that returns the responses of the status poll, which was
\* made without includeResponses
CompleteReturnOfPoll(ok, responses) ==
    IF ok THEN [err |-> "nil",
                responses |-> searchCalls[Len(searchCalls)].responses]
    ELSE [err |-> "get search responses", responses |-> <<>>]

\* what the timer case returns after the GetSearch of a complete job
CompleteReturn(ok, responses) ==
    IF ok THEN [err |-> "nil", responses |-> responses]
    ELSE [err |-> "get search responses", responses |-> <<>>]

\* the timer case from the second GetSearch on, for a job that is complete
FetchComplete ==
    /\ searchPc = "complete"
    /\ \E ok \in BOOLEAN, responses \in ResponseLists :
          /\ ok => ~ctxDone
          /\ ~ok => responses = <<>>
          /\ searchCalls' = Append(searchCalls,
                Call("GetSearch", TRUE, "ctx", ok, TRUE, responses))
          /\ searchRet' = CompleteReturn(ok, responses)
    /\ deleteTask' = "started"
    /\ searchPc' = "returned"
    /\ lastOp' = Op("FetchComplete", 0, FALSE, <<>>)
    /\ UNCHANGED <<storeVars, syncVars, mapVars, restVars, held, ctxDone, deadline,
                   timer>>

\* DeleteSearch by a goroutine that does not end with its call and calls
\* again
DeleteSearchAgain ==
    /\ deleteTask = "started"
    /\ \E ok \in BOOLEAN :
          /\ (DeleteContext = "ctx" /\ ctxDone) => ~ok
          /\ searchCalls' = Append(searchCalls,
                Call("DeleteSearch", FALSE, DeleteContext, ok, FALSE, <<>>))
    /\ deleteTask' = "started"
    /\ lastOp' = Op("DeleteSearch", 0, FALSE, <<>>)
    /\ UNCHANGED <<storeVars, syncVars, mapVars, restVars, held, searchPc, ctxDone,
                   deadline, timer, searchRet>>

\* the goroutine started by go func(): DeleteSearch, its error dropped
DeleteSearch ==
    /\ deleteTask = "started"
    /\ \E ok \in BOOLEAN :
          /\ (DeleteContext = "ctx" /\ ctxDone) => ~ok
          /\ searchCalls' = Append(searchCalls,
                Call("DeleteSearch", FALSE, DeleteContext, ok, FALSE, <<>>))
    /\ deleteTask' = "done"
    /\ lastOp' = Op("DeleteSearch", 0, FALSE, <<>>)
    /\ UNCHANGED <<storeVars, syncVars, mapVars, restVars, held, searchPc, ctxDone,
                   deadline, timer, searchRet>>

(***************************************************************************)
(* SpecSearch: one SearchAndWait call, its caller and the backend.         *)
(***************************************************************************)
NextSearch ==
    \/ CtxCancel
    \/ DeadlineFires
    \/ TimerFires
    \/ Search
    \/ SelectCtxDone
    \/ SelectDeadline
    \/ PollCount < MaxPolls /\ SelectTimer
    \/ FetchComplete
    \/ DeleteSearch

SpecSearch == Init /\ [][NextSearch]_vars

(***************************************************************************)
(* SearchAndWait with its calls to slskd in flight: a call is issued in    *)
(* one step and returns in a later one, and the ctx can be cancelled and   *)
(* the deadline can pass in between.  The calls are named by the line that *)
(* makes them: "search" (c.Search), "poll" (GetSearch of the timer case),  *)
(* "final" (GetSearch of the deadline case) and "fetch" (GetSearch of a    *)
(* job that is complete).  Every call is made with the caller's ctx, so    *)
(* the request of a call whose ctx is cancelled before the response is     *)
(* read fails.                                                             *)
(***************************************************************************)

\* AfterIssue of a poller that hands the poll to a goroutine of its own and
\* goes back to the select with the timer set again
AfterIssueDetached(site) ==
    IF site = "poll" THEN [pc |-> "select", timer |-> "armed"]
    ELSE [pc |-> site, timer |-> timer]

\* where SearchAndWait is while the call it made is in flight: it is blocked
\* in the call; the receive from timer.C has taken the tick of the timer
AfterIssue(site) ==
    [pc |-> site, timer |-> IF site = "poll" THEN "stopped" ELSE timer]

\* SearchAndWait reaches a call to slskd and sends the request; the select
\* picks any case that is ready.  The call is kept with the answer slskd
\* gives and with what had happened when it was issued: the deadline had
\* passed (late), the ctx was cancelled (cancelled)
CallIssue(site) ==
    /\ \/ site = "search" /\ searchPc = "idle"
       \/ site = "poll" /\ searchPc = "select" /\ timer = "fired"
       \/ site = "final" /\ searchPc = "select" /\ deadline
       \/ site = "fetch" /\ searchPc = "complete"
    /\ \E ok \in BOOLEAN, isComplete \in BOOLEAN, responses \in ResponseLists :
          /\ isComplete = IF site = "poll" THEN isComplete /\ ok
                          ELSE site = "fetch"
          /\ responses = IF site \in {"final", "fetch"} /\ ok
                         THEN responses ELSE <<>>
          /\ flight' = flight \cup
                { [site |-> site, late |-> deadline, cancelled |-> ctxDone,
                   ok |-> ok, isComplete |-> isComplete,
                   responses |-> responses] }
    /\ searchPc' = AfterIssue(site).pc
    /\ timer' = AfterIssue(site).timer
    /\ lastOp' = Op("CallIssue", 0, FALSE, <<>>)
    /\ UNCHANGED <<storeVars, syncVars, mapVars, calcVars, lockVars,
                   tokenVars, addVars, listVars, held, ctxDone, deadline,
                   searchCalls, deleteTask, searchRet>>

\* CallOk of requests made under context.Background(): the ctx of the
\* caller does not reach them
CallOkBackground(c) == c.ok

\* whether the call c returns without an error: slskd answers so and the
\* ctx, which the request was made with, is not cancelled by the time the
\* response is read
CallOk(c) == c.ok /\ ~ctxDone

\* the call SearchAndWait is blocked in returns, with the answer of slskd or,
\* ctx being cancelled, with the error of the request, and SearchAndWait
\* runs on to its next call, to the select or to its return
CallReturn ==
    \E c \in flight :
        /\ c.site = searchPc
        /\ LET ok == CallOk(c)
               isComplete == IF c.site = "poll" THEN c.isComplete /\ ok
                             ELSE c.isComplete
               responses == IF ok THEN c.responses ELSE <<>>
               out == CASE c.site = "search" ->
                             [pc |-> IF ok THEN "select" ELSE "returned",
                              timer |-> IF ok THEN "armed" ELSE "stopped",
                              ret |-> IF ok THEN NoReturn
                                      ELSE [err |-> "search",
                                            responses |-> <<>>],
                              del |-> deleteTask]
                        [] c.site = "poll" ->
                             [del |-> deleteTask] @@ PollOutcome(ok, isComplete)
                        [] c.site = "final" ->
                             [pc |-> "returned", timer |-> "stopped",
                              ret |-> DeadlineReturn(ok, responses),
                              del |-> "started"]
                        [] c.site = "fetch" ->
                             [pc |-> "returned", timer |-> timer,
                              ret |-> CompleteReturn(ok, responses),
                              del |-> "started"]
           IN /\ searchCalls' = Append(searchCalls,
                    [site |-> c.site, late |-> c.late] @@
                    Call(IF c.site = "search" THEN "Search" ELSE "GetSearch",
                         c.site \in {"final", "fetch"}, "ctx", ok,
                         isComplete, responses))
              /\ searchPc' = out.pc
              /\ timer' = out.timer
              /\ searchRet' = out.ret
              /\ deleteTask' = out.del
        /\ flight' = flight \ {c}
        /\ lastOp' = Op("CallReturn", 0, FALSE, <<c>>)
        /\ UNCHANGED <<storeVars, syncVars, mapVars, calcVars, lockVars,
                       tokenVars, addVars, listVars, held, ctxDone, deadline>>

(***************************************************************************)
(* SpecWait: one SearchAndWait call with its calls in flight, its caller,  *)
(* the two timers and slskd.                                               *)
(***************************************************************************)
NextWait ==
    \/ CtxCancel
    \/ DeadlineFires
    \/ TimerFires
    \/ \E site \in {"search", "poll", "final", "fetch"} :
          /\ site = "poll" => PollCount < MaxPolls
          /\ CallIssue(site)
    \/ CallReturn
    \/ SelectCtxDone
    \/ DeleteSearch

SpecWait == Init /\ [][NextWait]_vars

(***************************************************************************)
(* SpecWaitFair: SearchAndWait in time.  The timer is set to two seconds   *)
(* and is reset to half a second at least (adaptiveDelay clamps), and      *)
(* SearchAndWait goes from there to its select without blocking: when the  *)
(* deadline has passed by then, the select is evaluated before the timer   *)
(* fires.  SearchAndWait takes its steps, every call to slskd returns, and *)
(* time.After(timeout) fires.                                              *)
(***************************************************************************)
NextWaitTimed ==
    /\ NextWait
    /\ lastOp'.op = "TimerFires" => ~deadline

SpecWaitFair ==
    /\ Init
    /\ [][NextWaitTimed]_vars
    /\ WF_vars(NextWaitTimed /\ lastOp'.op \in {"CallIssue", "SelectCtxDone"})
    /\ WF_vars(NextWaitTimed /\ lastOp'.op = "CallReturn")
    /\ WF_vars(NextWaitTimed /\ lastOp'.op = "DeadlineFires")

(***************************************************************************)
(* The state-string mapping on its own: every string of up to MaxFrags     *)
(* fragments is mapped.                                                    *)
(***************************************************************************)
RECURSIVE Concat(_)
Concat(frags) ==
    IF frags = <<>> THEN <<>> ELSE Head(frags) \o Concat(Tail(frags))

StateStrings == { Concat(fs) : fs \in SeqsUpTo(Fragments, MaxFrags) }

MapOneState ==
    /\ \E state \in StateStrings :
          /\ mapState' = state
          /\ mapStatus' = MapState(state)
    /\ UNCHANGED <<storeVars, syncVars, lastOp, held, searchVars, restVars>>

NextMap == MapOneState

SpecMap == Init /\ [][NextMap]_vars

(***************************************************************************)
(* SpecDelay: the delay between two polls of a running search.  A progress *)
(* is a number of ten-thousandths, so that progress = min(FileCount,       *)
(* fileLimit); a delay is a number of hundredths of a microsecond, in      *)
(* which the polynomial a*p^2 + b*p + c has an integer value for every     *)
(* progress.  The float64 product that time.Duration truncates is that     *)
(* value or one nanosecond less.                                           *)
(***************************************************************************)
fileLimit == 10000
DelayA == 16
DelayB == -16
DelayC == 5
DelayFloor == 50000000      \* 0.5 s
DelayCeiling == 500000000   \* 5.0 s
DelayUnitsPerSecond == 100000000

\* progress := math.Min(float64(result.FileCount)/float64(fileLimit), 1.0)
ProgressOf(fileCount) ==
    IF fileCount < fileLimit THEN fileCount ELSE fileLimit

\* adaptiveDelay without the square term
adaptiveDelayLinear(progress) ==
    LET seconds == DelayB * progress * fileLimit
                   + DelayC * DelayUnitsPerSecond
        capped == IF DelayCeiling < seconds THEN DelayCeiling ELSE seconds
    IN IF DelayFloor > capped THEN DelayFloor ELSE capped

\* adaptiveDelay
adaptiveDelay(progress) ==
    LET seconds == DelayA * progress * progress
                   + DelayB * progress * fileLimit
                   + DelayC * DelayUnitsPerSecond
        capped == IF DelayCeiling < seconds THEN DelayCeiling ELSE seconds
    IN IF DelayFloor > capped THEN DelayFloor ELSE capped

\* a poll that finds the search still running: timer.Reset(delay)
PollResetsTimer(fileCount) ==
    /\ delayPoll' = [FileCount |-> fileCount,
                     delay |-> adaptiveDelay(ProgressOf(fileCount))]
    /\ lastOp' = Op("PollResetsTimer", 0, FALSE, <<>>)
    /\ UNCHANGED <<storeVars, syncVars, mapVars, held, searchVars, sideVars,
                   progRead, lockVars, tokenVars, addVars>>

NextDelay ==
    \E n \in { k * 100 : k \in 0..MaxFileSteps } : PollResetsTimer(n)

SpecDelay == Init /\ [][NextDelay]_vars

(***************************************************************************)
(* SpecProgress: Download.Progress read of entries whose byte count is a   *)
(* whole number of percents of the size, or whose size is zero.            *)
(***************************************************************************)
ReadProgress(bytesDownloaded, size) ==
    LET d == [BytesDownloaded |-> bytesDownloaded, Size |-> size]
    IN /\ progRead' = [d |-> d, percent |-> Progress(d)]
       /\ lastOp' = Op("Progress", 0, FALSE, <<>>)
       /\ UNCHANGED <<storeVars, syncVars, mapVars, held, searchVars,
                      sideVars, delayPoll, lockVars, tokenVars, addVars>>

NextProgress ==
    \E b \in { k * 10 : k \in 0..MaxByteStep }, sz \in {0, 100, 1000} :
        ReadProgress(b, sz)

SpecProgress == Init /\ [][NextProgress]_vars

(***************************************************************************)
(* SpecLock: goroutines that call the methods of the Store concurrently.   *)
(* Every method takes Store.mu on entry and releases it by a deferred      *)
(* unlock, so its whole body is its critical section.  Store.mu is a       *)
(* sync.RWMutex: Lock waits until no writer and no reader holds it, RLock  *)
(* waits while a writer holds it or a Lock call waits, and Unlock lets in  *)
(* the RLock calls that wait before another Lock call gets the mutex.  The *)
(* mutex is not reentrant: a method that called another method of the      *)
(* Store would take the mutex again while it holds it.                     *)
(***************************************************************************)
Procs == 1..NumProcs
LockedMethods ==
    {"Add", "UpdateTransfer", "IncrementRetry", "SetTransferID", "Remove"}
RLockedMethods == {"Get", "Queue", "History", "All", "FindByFile"}

\* the methods with SetTransferID taking the read lock
LockKindSetTransferIDReads(op) ==
    IF op \in LockedMethods \ {"SetTransferID"} THEN "Lock" ELSE "RLock"

\* s.mu.Lock() or s.mu.RLock(), the first statement of the method
LockKind(op) == IF op \in LockedMethods THEN "Lock" ELSE "RLock"

\* NestedCalls with the range loop of syncOnce run inside All, an
\* UpdateTransfer under the read lock of the snapshot
NestedCallsUpdateUnderAll(op) ==
    IF op = "All" THEN {"UpdateTransfer"} ELSE {}

\* the methods of the Store that a method calls between its lock and its
\* deferred unlock: none does
NestedCalls(op) == {}

\* a goroutine calls a method and reaches its Lock or RLock
StoreCall(p, op) ==
    /\ lockPc[p] = "idle"
    /\ lockPc' = [lockPc EXCEPT ![p] = "blocked"]
    /\ lockOp' = [lockOp EXCEPT ![p] = op]
    /\ muPending' = IF LockKind(op) = "Lock" THEN muPending + 1 ELSE muPending
    /\ lastOp' = Op("StoreCall", p, FALSE, <<>>)
    /\ UNCHANGED <<storeVars, syncVars, mapVars, held, searchVars, sideVars,
                   calcVars, tokenVars, addVars, muWriter, muReaders>>

\* Lock or RLock returns
Acquire(p) ==
    /\ lockPc[p] = "blocked"
    /\ IF LockKind(lockOp[p]) = "Lock"
       THEN /\ ~muWriter
            /\ muReaders = 0
            /\ muWriter' = TRUE
            /\ muPending' = muPending - 1
            /\ UNCHANGED muReaders
       ELSE /\ ~muWriter
            /\ muPending = 0
            /\ muReaders' = muReaders + 1
            /\ UNCHANGED <<muWriter, muPending>>
    /\ lockPc' = [lockPc EXCEPT ![p] = "critical"]
    /\ lastOp' = Op("Acquire", p, FALSE, <<>>)
    /\ UNCHANGED <<storeVars, syncVars, mapVars, held, searchVars, sideVars,
                   calcVars, tokenVars, addVars, lockOp>>

\* the method returns: the deferred Unlock or RUnlock runs.  A method that
\* called another one inside would come here only after that call had taken
\* the mutex: Lock never gets it while the caller holds it, RLock gets it
\* beside the caller's RLock as long as no Lock call waits.  Unlock hands
\* the mutex to the RLock calls that wait.
Release(p) ==
    /\ lockPc[p] = "critical"
    /\ \A inner \in NestedCalls(lockOp[p]) :
          /\ LockKind(inner) = "RLock"
          /\ ~muWriter
          /\ muPending = 0
    /\ LET woken == IF LockKind(lockOp[p]) = "Lock"
                    THEN { q \in Procs : /\ lockPc[q] = "blocked"
                                         /\ LockKind(lockOp[q]) = "RLock" }
                    ELSE {}
       IN /\ IF LockKind(lockOp[p]) = "Lock"
             THEN muWriter' = FALSE /\ muReaders' = Cardinality(woken)
             ELSE muReaders' = muReaders - 1 /\ UNCHANGED muWriter
          /\ lockPc' = [q \in Procs |->
                IF q = p THEN "idle"
                ELSE IF q \in woken THEN "critical" ELSE lockPc[q]]
    /\ lockOp' = [lockOp EXCEPT ![p] = "none"]
    /\ lastOp' = Op("Release", p, FALSE, <<>>)
    /\ UNCHANGED <<storeVars, syncVars, mapVars, held, searchVars, sideVars,
                   calcVars, tokenVars, addVars, muPending>>

NextLock ==
    \/ \E p \in Procs, op \in LockedMethods \cup RLockedMethods :
          StoreCall(p, op)
    \/ \E p \in Procs : Acquire(p)
    \/ \E p \in Procs : Release(p)

SpecLock == Init /\ [][NextLock]_vars

(***************************************************************************)
(* SpecLockFair: the goroutines also call slskd, as syncOnce does before   *)
(* it reads the registry and handleAddURL before it adds to it; such a     *)
(* call is made outside the methods of the Store and need not return.  A   *)
(* method that has the mutex runs to its return, and sync.Mutex and        *)
(* sync.RWMutex do not starve a goroutine that waits: a Lock or RLock that *)
(* can return again and again does return.                                 *)
(***************************************************************************)

\* h.SlskdClient.GetAllDownloads or h.SlskdClient.Download is called
BackendCall(p) ==
    /\ lockPc[p] = "idle"
    /\ lockPc' = [lockPc EXCEPT ![p] = "backend"]
    /\ lastOp' = Op("BackendCall", p, FALSE, <<>>)
    /\ UNCHANGED <<storeVars, syncVars, mapVars, held, searchVars, sideVars,
                   calcVars, tokenVars, addVars, lockOp, muWriter, muReaders,
                   muPending>>

\* the call to slskd returns
BackendReturn(p) ==
    /\ lockPc[p] = "backend"
    /\ lockPc' = [lockPc EXCEPT ![p] = "idle"]
    /\ lastOp' = Op("BackendReturn", p, FALSE, <<>>)
    /\ UNCHANGED <<storeVars, syncVars, mapVars, held, searchVars, sideVars,
                   calcVars, tokenVars, addVars, lockOp, muWriter, muReaders,
                   muPending>>

NextBackend ==
    \/ NextLock
    \/ \E p \in Procs : BackendCall(p)
    \/ \E p \in Procs : BackendReturn(p)

SpecLockFair ==
    /\ Init
    /\ [][NextBackend]_vars
    /\ \A p \in Procs : WF_vars(Release(p)) /\ SF_vars(Acquire(p))

(***************************************************************************)
(* SpecToken: the token codec.  A Go string is the sequence of its bytes.  *)
(* encoding/json and encoding/base64 are modelled by what they do to those *)
(* bytes, for JSON texts whose member values are strings, integers, null,  *)
(* true or false.                                                          *)
(***************************************************************************)
Failed == [ok |-> FALSE, kind |-> "none", val |-> <<>>, next |-> 0]
Parsed(kind, val, next) ==
    [ok |-> TRUE, kind |-> kind, val |-> val, next |-> next]

\* utf8.DecodeRuneInString: the length of the rune that starts at s[i], 0 when
\* the bytes there are not the encoding of a rune
RuneLen(s, i) ==
    LET c == s[i]
        IsCont(t, j) == j <= Len(t) /\ t[j] \in 128..191
    IN IF c < 128 THEN 1
       ELSE IF c \in 194..223 /\ IsCont(s, i + 1) THEN 2
       ELSE IF c \in 224..239 /\ IsCont(s, i + 1) /\ IsCont(s, i + 2)
               /\ (c = 224 => s[i + 1] >= 160)
               /\ (c = 237 => s[i + 1] <= 159) THEN 3
       ELSE IF c \in 240..244 /\ IsCont(s, i + 1) /\ IsCont(s, i + 2)
               /\ IsCont(s, i + 3)
               /\ (c = 240 => s[i + 1] >= 144)
               /\ (c = 244 => s[i + 1] <= 143) THEN 4
       ELSE 0

\* utf8.EncodeRune for a rune of the basic plane; a surrogate half becomes
\* U+FFFD
EncodeRune(r) ==
    IF r < 128 THEN <<r>>
    ELSE IF r < 2048 THEN <<192 + (r \div 64), 128 + (r % 64)>>
    ELSE IF r \in 55296..57343 THEN <<239, 191, 189>>
    ELSE <<224 + (r \div 4096), 128 + ((r \div 64) % 64), 128 + (r % 64)>>

\* encoding/json, the bytes of a string between the quotes, with escapeHTML
RECURSIVE QuoteFrom(_, _)
QuoteFrom(s, i) ==
    IF i > Len(s) THEN <<>>
    ELSE LET c == s[i]
             n == RuneLen(s, i)
             HexChar(v) == IF v < 10 THEN 48 + v ELSE 87 + v
         IN IF c = 34 \/ c = 92 THEN <<92, c>> \o QuoteFrom(s, i + 1)
            ELSE IF c = 10 THEN <<92, 110>> \o QuoteFrom(s, i + 1)
            ELSE IF c = 13 THEN <<92, 114>> \o QuoteFrom(s, i + 1)
            ELSE IF c = 9 THEN <<92, 116>> \o QuoteFrom(s, i + 1)
            ELSE IF c < 32 \/ c \in {60, 62, 38}
            THEN <<92, 117, 48, 48, HexChar(c \div 16), HexChar(c % 16)>>
                 \o QuoteFrom(s, i + 1)
            ELSE IF n = 0
            THEN <<92, 117, 102, 102, 102, 100>> \o QuoteFrom(s, i + 1)
            ELSE IF n = 3 /\ c = 226 /\ s[i + 1] = 128 /\ s[i + 2] \in {168, 169}
            THEN <<92, 117, 50, 48, 50, HexChar(s[i + 2] - 160)>>
                 \o QuoteFrom(s, i + 3)
            ELSE SubSeq(s, i, i + n - 1) \o QuoteFrom(s, i + n)

RECURSIVE QuoteNoEscapeFrom(_, _)
QuoteNoEscapeFrom(s, i) ==
    IF i > Len(s) THEN <<>> ELSE <<s[i]>> \o QuoteNoEscapeFrom(s, i + 1)

\* json string encoding that copies every byte as it is
QuoteNoEscape(s) == <<34>> \o QuoteNoEscapeFrom(s, 1) \o <<34>>

\* encoding/json, a string as a JSON string
Quote(s) == <<34>> \o QuoteFrom(s, 1) \o <<34>>

\* encoding/json, an int64 as a JSON number
RECURSIVE Decimal(_)
Decimal(n) ==
    IF n < 0 THEN <<45>> \o Decimal(-n)
    ELSE IF n < 10 THEN <<48 + n>>
    ELSE Decimal(n \div 10) \o <<48 + (n % 10)>>

\* json.Marshal(FileToken{...}): {"u":...,"f":...,"s":...}
Marshal(t) ==
    <<123, 34, 117, 34, 58>> \o Quote(t.Username)
    \o <<44, 34, 102, 34, 58>> \o Quote(t.Filename)
    \o <<44, 34, 115, 34, 58>> \o Decimal(t.Size) \o <<125>>

\* base64.URLEncoding.EncodeToString, with = padding
RECURSIVE B64Encode(_)
B64Encode(b) ==
    LET \* the URL-safe alphabet
        B64Char(v) ==
            IF v < 26 THEN 65 + v
            ELSE IF v < 52 THEN 71 + v
            ELSE IF v < 62 THEN v - 4
            ELSE IF v = 62 THEN 45
            ELSE 95
    IN
    IF Len(b) = 0 THEN <<>>
    ELSE IF Len(b) = 1
    THEN <<B64Char(b[1] \div 4), B64Char((b[1] % 4) * 16), 61, 61>>
    ELSE IF Len(b) = 2
    THEN <<B64Char(b[1] \div 4),
           B64Char((b[1] % 4) * 16 + (b[2] \div 16)),
           B64Char((b[2] % 16) * 4), 61>>
    ELSE <<B64Char(b[1] \div 4),
           B64Char((b[1] % 4) * 16 + (b[2] \div 16)),
           B64Char((b[2] % 16) * 4 + (b[3] \div 64)),
           B64Char(b[3] % 64)>>
         \o B64Encode(SubSeq(b, 4, Len(b)))

\* base64.URLEncoding.DecodeString, one quantum of four characters at a time;
\* padding is allowed at the end of the last quantum only
RECURSIVE B64Quanta(_, _, _)
B64Quanta(t, i, acc) ==
    IF i > Len(t) THEN Parsed("bytes", acc, i)
    ELSE LET \* the value of a character of the URL-safe alphabet, -1 for
             \* any other character
             B64Val(c) ==
                 IF c \in 65..90 THEN c - 65
                 ELSE IF c \in 97..122 THEN c - 71
                 ELSE IF c \in 48..57 THEN c + 4
                 ELSE IF c = 45 THEN 62
                 ELSE IF c = 95 THEN 63
                 ELSE -1
             last == i + 3 = Len(t)
             v1 == B64Val(t[i])
             v2 == B64Val(t[i + 1])
             v3 == B64Val(t[i + 2])
             v4 == B64Val(t[i + 3])
             b1 == v1 * 4 + (v2 \div 16)
             b2 == (v2 % 16) * 16 + (v3 \div 4)
             b3 == (v3 % 4) * 64 + v4
         IN IF v1 < 0 \/ v2 < 0 THEN Failed
            ELSE IF t[i + 2] = 61
            THEN IF last /\ t[i + 3] = 61
                 THEN Parsed("bytes", acc \o <<b1>>, i + 4)
                 ELSE Failed
            ELSE IF v3 < 0 THEN Failed
            ELSE IF t[i + 3] = 61
            THEN IF last THEN Parsed("bytes", acc \o <<b1, b2>>, i + 4)
                 ELSE Failed
            ELSE IF v4 < 0 THEN Failed
            ELSE B64Quanta(t, i + 4, acc \o <<b1, b2, b3>>)

B64Decode(t) == IF Len(t) % 4 # 0 THEN Failed ELSE B64Quanta(t, 1, <<>>)

RECURSIVE SkipWs(_, _)
SkipWs(b, i) ==
    IF i <= Len(b) /\ b[i] \in {32, 9, 10, 13} THEN SkipWs(b, i + 1) ELSE i

\* encoding/json, a JSON string from the byte after its opening quote: the
\* escapes are undone and bytes that are no rune become U+FFFD
RECURSIVE ScanString(_, _, _)
ScanString(b, i, acc) ==
    IF i > Len(b) THEN Failed
    ELSE LET c == b[i]
             n == RuneLen(b, i)
             HexVal(h) ==
                 IF h \in 48..57 THEN h - 48
                 ELSE IF h \in 97..102 THEN h - 87
                 ELSE IF h \in 65..70 THEN h - 55
                 ELSE -1
         IN IF c = 34 THEN Parsed("string", acc, i + 1)
            ELSE IF c < 32 THEN Failed
            ELSE IF c = 92
            THEN IF i + 1 > Len(b) THEN Failed
                 ELSE LET e == b[i + 1]
                      IN IF e \in {34, 92, 47}
                         THEN ScanString(b, i + 2, Append(acc, e))
                         ELSE IF e = 98 THEN ScanString(b, i + 2, Append(acc, 8))
                         ELSE IF e = 102
                         THEN ScanString(b, i + 2, Append(acc, 12))
                         ELSE IF e = 110
                         THEN ScanString(b, i + 2, Append(acc, 10))
                         ELSE IF e = 114
                         THEN ScanString(b, i + 2, Append(acc, 13))
                         ELSE IF e = 116
                         THEN ScanString(b, i + 2, Append(acc, 9))
                         ELSE IF e = 117 /\ i + 5 <= Len(b)
                                 /\ \A k \in 2..5 : HexVal(b[i + k]) >= 0
                         THEN ScanString(b, i + 6,
                                  acc \o EncodeRune(
                                      HexVal(b[i + 2]) * 4096
                                      + HexVal(b[i + 3]) * 256
                                      + HexVal(b[i + 4]) * 16
                                      + HexVal(b[i + 5])))
                         ELSE Failed
            ELSE IF n = 0 THEN ScanString(b, i + 1, acc \o <<239, 191, 189>>)
            ELSE ScanString(b, i + n, acc \o SubSeq(b, i, i + n - 1))

RECURSIVE ScanDigits(_, _, _)
ScanDigits(b, i, acc) ==
    IF i <= Len(b) /\ b[i] \in 48..57
    THEN ScanDigits(b, i + 1, acc * 10 + (b[i] - 48))
    ELSE Parsed("number", acc, i)

\* encoding/json, a JSON number that is an integer
ParseNumber(b, i) ==
    LET neg == b[i] = 45
        j == IF neg THEN i + 1 ELSE i
    IN IF j > Len(b) \/ b[j] \notin 48..57 THEN Failed
       ELSE IF b[j] = 48 /\ j + 1 <= Len(b) /\ b[j + 1] \in 48..57 THEN Failed
       ELSE LET d == ScanDigits(b, j, 0)
            IN IF d.next <= Len(b) /\ b[d.next] \in {46, 101, 69} THEN Failed
               ELSE Parsed("number", IF neg THEN -d.val ELSE d.val, d.next)

IsLiteral(b, i, lit) ==
    i + Len(lit) - 1 <= Len(b) /\ SubSeq(b, i, i + Len(lit) - 1) = lit

\* encoding/json, the value of a member
ParseValue(b, i) ==
    IF i > Len(b) THEN Failed
    ELSE IF b[i] = 34 THEN ScanString(b, i + 1, <<>>)
    ELSE IF b[i] = 45 \/ b[i] \in 48..57 THEN ParseNumber(b, i)
    ELSE IF IsLiteral(b, i, <<110, 117, 108, 108>>)
    THEN Parsed("null", <<>>, i + 4)
    ELSE IF IsLiteral(b, i, <<116, 114, 117, 101>>)
    THEN Parsed("bool", <<>>, i + 4)
    ELSE IF IsLiteral(b, i, <<102, 97, 108, 115, 101>>)
    THEN Parsed("bool", <<>>, i + 5)
    ELSE Failed

ZeroToken == [Username |-> <<>>, Filename |-> <<>>, Size |-> 0]

\* the field of FileToken a key names: the json tags u, f, s, matched without
\* regard to case
FieldOf(key) ==
    IF key = <<117>> \/ key = <<85>> THEN "Username"
    ELSE IF key = <<102>> \/ key = <<70>> THEN "Filename"
    ELSE IF key = <<115>> \/ key = <<83>> THEN "Size"
    ELSE "none"

KindOf(field) == IF field = "Size" THEN "number" ELSE "string"

\* the struct after a member has been decoded into it: a null and a member
\* of another key leave it as it is
Assign(t, key, v) ==
    IF FieldOf(key) = "none" \/ v.kind # KindOf(FieldOf(key)) THEN t
    ELSE [t EXCEPT ![FieldOf(key)] = v.val]

\* a member whose value has not the type of its field: UnmarshalTypeError
Mismatch(key, v) ==
    FieldOf(key) # "none" /\ v.kind \notin {"null", KindOf(FieldOf(key))}

\* encoding/json, the members of an object from its first key
RECURSIVE ParseMembers(_, _, _, _)
ParseMembers(b, i, t, bad) ==
    IF i > Len(b) \/ b[i] # 34 THEN Failed
    ELSE LET k == ScanString(b, i + 1, <<>>)
         IN IF ~k.ok THEN Failed
            ELSE LET c == SkipWs(b, k.next)
                 IN IF c > Len(b) \/ b[c] # 58 THEN Failed
                    ELSE LET v == ParseValue(b, SkipWs(b, c + 1))
                         IN IF ~v.ok THEN Failed
                            ELSE LET e == SkipWs(b, v.next)
                                     t2 == Assign(t, k.val, v)
                                     bad2 == bad \/ Mismatch(k.val, v)
                                 IN IF e > Len(b) THEN Failed
                                    ELSE IF b[e] = 125
                                    THEN IF bad2 THEN Failed
                                         ELSE Parsed("object", t2, e + 1)
                                    ELSE IF b[e] = 44
                                    THEN ParseMembers(b, SkipWs(b, e + 1),
                                                      t2, bad2)
                                    ELSE Failed

\* json.Unmarshal(b, &t) for t a zero FileToken: ok is false when it returns
\* an error
Unmarshal(b) ==
    LET i == SkipWs(b, 1)
        r == IF i > Len(b) THEN Failed
             ELSE IF b[i] = 123
             THEN LET j == SkipWs(b, i + 1)
                  IN IF j <= Len(b) /\ b[j] = 125
                     THEN Parsed("object", ZeroToken, j + 1)
                     ELSE ParseMembers(b, j, ZeroToken, FALSE)
             ELSE IF IsLiteral(b, i, <<110, 117, 108, 108>>)
             THEN Parsed("object", ZeroToken, i + 4)
             ELSE Failed
    IN IF r.ok /\ SkipWs(b, r.next) > Len(b) THEN r ELSE Failed

\* EncodeToken
EncodeToken(username, filename, size) ==
    B64Encode(Marshal([Username |-> username, Filename |-> filename,
                       Size |-> size]))

\* DecodeToken: the error, "none" for nil, and the *FileToken, <<>> for nil
DecodeToken(token) ==
    LET b == B64Decode(token)
        t == Unmarshal(b.val)
    IN IF ~b.ok THEN [err |-> "decode base64", tok |-> <<>>]
       ELSE IF ~t.ok THEN [err |-> "unmarshal token", tok |-> <<>>]
       ELSE [err |-> "none", tok |-> <<t.val>>]

\* not-valid-base64!!! : characters outside the alphabet
TokenBadAlphabet ==
    <<110, 111, 116, 45, 118, 97, 108, 105, 100, 45, 98, 97, 115, 101, 54,
    52, 33, 33, 33>>

\* notjson
PayloadNotJSON ==
    <<110, 111, 116, 106, 115, 111, 110>>

\* {}
PayloadNoFields ==
    <<123, 125>>


\* the runes the strings of a token are made of: a, backslash, quote, <,
\* newline and e with acute accent (two bytes)
TokenRunes == {<<97>>, <<92>>, <<34>>, <<60>>, <<10>>, <<195, 169>>}

RECURSIVE RuneStrings(_)
RuneStrings(n) ==
    IF n = 0 THEN {<<>>}
    ELSE LET S == RuneStrings(n - 1)
         IN S \cup { s \o r : s \in S, r \in TokenRunes }

\* tokens that are not URL-safe base64
MalformedTokens ==
    {
     TokenBadAlphabet,
     \* abc : not a whole number of quanta
     <<97, 98, 99>>,
     \* ab=c : padding inside a quantum
     <<97, 98, 61, 99>>
    }

\* payloads that are not the JSON text of an object
UnparsablePayloads ==
    {
     PayloadNotJSON,
     \* the empty payload
     <<>>,
     \* {"u":"a"
     <<123, 34, 117, 34, 58, 34, 97, 34>>,
     \* {"u":1,"f":"b","s":2}
     <<123, 34, 117, 34, 58, 49, 44, 34, 102, 34, 58, 34, 98, 34, 44, 34,
      115, 34, 58, 50, 125>>,
     \* {"u":"a","f":"b","s":1}x
     <<123, 34, 117, 34, 58, 34, 97, 34, 44, 34, 102, 34, 58, 34, 98, 34,
      44, 34, 115, 34, 58, 49, 125, 120>>
    }

\* payloads that are JSON but have not all of u, f and s
IncompletePayloads ==
    {
     PayloadNoFields,
     \* {"u":"a"}
     <<123, 34, 117, 34, 58, 34, 97, 34, 125>>,
     \* {"u":"a","f":"b"}
     <<123, 34, 117, 34, 58, 34, 97, 34, 44, 34, 102, 34, 58, 34, 98, 34,
      125>>,
     \* {"f":"b","s":1}
     <<123, 34, 102, 34, 58, 34, 98, 34, 44, 34, 115, 34, 58, 49, 125>>,
     \* null
     <<110, 117, 108, 108>>
    }

\* payloads that have u, f and s
CompletePayloads ==
    {
     \* {"u":"a","f":"b","s":1}
     <<123, 34, 117, 34, 58, 34, 97, 34, 44, 34, 102, 34, 58, 34, 98, 34,
      44, 34, 115, 34, 58, 49, 125>>,
     \*  {"u" : "a", "f" : "b", "s" : 1} 
     <<32, 123, 34, 117, 34, 32, 58, 32, 34, 97, 34, 44, 32, 34, 102, 34,
      32, 58, 32, 34, 98, 34, 44, 32, 34, 115, 34, 32, 58, 32, 49, 125, 32>>,
     \* {"u":"a","x":"y","f":"b","s":1}
     <<123, 34, 117, 34, 58, 34, 97, 34, 44, 34, 120, 34, 58, 34, 121, 34,
      44, 34, 102, 34, 58, 34, 98, 34, 44, 34, 115, 34, 58, 49, 125>>,
     \* {"u":"","f":"","s":0}
     <<123, 34, 117, 34, 58, 34, 34, 44, 34, 102, 34, 58, 34, 34, 44, 34,
      115, 34, 58, 48, 125>>,
     \* {"u":"\u003c","f":"C:\\a\n","s":12}
     <<123, 34, 117, 34, 58, 34, 92, 117, 48, 48, 51, 99, 34, 44, 34, 102,
      34, 58, 34, 67, 58, 92, 92, 97, 92, 110, 34, 44, 34, 115, 34, 58, 49,
      50, 125>>
    }

CraftedTokens ==
    { [token |-> t, class |-> "malformed"] : t \in MalformedTokens }
    \cup { [token |-> B64Encode(q), class |-> "unparsable"] :
             q \in UnparsablePayloads }
    \cup { [token |-> B64Encode(q), class |-> "incomplete"] :
             q \in IncompletePayloads }
    \cup { [token |-> B64Encode(q), class |-> "complete"] :
             q \in CompletePayloads }

\* a token is made by EncodeToken and read back by DecodeToken
RoundTrip(username, filename, size) ==
    /\ tokCall = <<>>
    /\ LET token == EncodeToken(username, filename, size)
       IN tokCall' = [op |-> "RoundTrip",
                      in |-> [Username |-> username, Filename |-> filename,
                              Size |-> size],
                      class |-> "encoded",
                      token |-> token,
                      out |-> DecodeToken(token)]
    /\ lastOp' = Op("RoundTrip", 0, FALSE, <<>>)
    /\ UNCHANGED <<storeVars, syncVars, mapVars, held, searchVars, sideVars,
                   calcVars, lockVars, addVars>>

\* a token that came with a request is read by DecodeToken
DecodeRequestToken(crafted) ==
    /\ tokCall = <<>>
    /\ tokCall' = [op |-> "Decode",
                   in |-> ZeroToken,
                   class |-> crafted.class,
                   token |-> crafted.token,
                   out |-> DecodeToken(crafted.token)]
    /\ lastOp' = Op("Decode", 0, FALSE, <<>>)
    /\ UNCHANGED <<storeVars, syncVars, mapVars, held, searchVars, sideVars,
                   calcVars, lockVars, addVars>>

\* the caller is done with the result
TokenDone ==
    /\ tokCall # <<>>
    /\ tokCall' = <<>>
    /\ lastOp' = Op("TokenDone", 0, FALSE, <<>>)
    /\ UNCHANGED <<storeVars, syncVars, mapVars, held, searchVars, sideVars,
                   calcVars, lockVars, addVars>>

NextToken ==
    \/ \E u \in RuneStrings(MaxOwnerRunes), f \in RuneStrings(MaxPathRunes),
          sz \in {0, 7, 1234} : RoundTrip(u, f, sz)
    \/ \E crafted \in CraftedTokens : DecodeRequestToken(crafted)
    \/ TokenDone

SpecToken == Init /\ [][NextToken]_vars

(***************************************************************************)
(* SpecAddURL: the addurl mode of the download-client facade.  The         *)
(* handler's APIKey is fixed when the handler is built and is an input     *)
(* here; the name parameter is the NZB URL, given by what url.Parse makes  *)
(* of it and by its id parameter.  Requests are served one after another.  *)
(***************************************************************************)
\* a token for owner "u1", path "f" and size 1000, a token whose payload is
\* {}, a token whose payload is no JSON, and a token that is no base64
AddTokens ==
    {EncodeToken(<<117, 49>>, <<102>>, 1000), B64Encode(PayloadNoFields),
     B64Encode(PayloadNotJSON), TokenBadAlphabet}

\* the requests: the apikey parameter, the name parameter (empty, a text
\* url.Parse rejects, or a URL with its id parameter) and the cat parameter
AddURLRequests ==
    [apikey : {"", "key", "wrong"},
     name : {[raw |-> "empty", id |-> <<>>],
             [raw |-> "unparsable", id |-> <<>>],
             [raw |-> "url", id |-> <<>>]}
            \cup { [raw |-> "url", id |-> t] : t \in AddTokens },
     cat : Categories]

\* Handler.checkAPIKey
checkAPIKey(apiKey, key) == apiKey = "" \/ key = apiKey

\* extractTokenFromURL
extractTokenFromURL(nzbURL) ==
    IF nzbURL.raw = "unparsable" THEN [err |-> "parse URL", token |-> <<>>]
    ELSE IF nzbURL.id = <<>>
    THEN [err |-> "no id parameter in URL", token |-> <<>>]
    ELSE [err |-> "none", token |-> nzbURL.id]

\* handleAddURL: the return it takes, named by the error it writes; decoded
\* is what DecodeToken returns for the token of the URL
AddURLOutcome(apiKey, req, decoded, backendOk) ==
    IF ~checkAPIKey(apiKey, req.apikey) THEN "API Key Incorrect"
    ELSE IF req.name.raw = "empty" THEN "Missing name parameter"
    ELSE IF extractTokenFromURL(req.name).err # "none" THEN "Invalid NZB URL"
    ELSE IF decoded.err # "none" THEN "Invalid token"
    ELSE IF ~backendOk THEN "Failed to queue download"
    ELSE "queued"

\* handleAddURL that tracks the download before it asks slskd for it
AddURLRegistersBeforeBackend(outcome) ==
    outcome \in {"queued", "Failed to queue download"}

\* handleAddURL reaches h.Store.Add
AddURLRegisters(outcome) == outcome = "queued"

\* Handler.handleAddURL from newznab.DecodeToken on
AddURLDecoded(apiKey, req, backendOk, decoded) ==
    LET outcome == AddURLOutcome(apiKey, req, decoded, backendOk)
        fileToken == decoded.tok[1]
        download ==
            IF outcome \in {"queued", "Failed to queue download"}
            THEN <<[Username |-> fileToken.Username,
                    Filename |-> fileToken.Filename,
                    Size |-> fileToken.Size, ok |-> backendOk]>>
            ELSE <<>>
        resp(id) ==
            [apiKey |-> apiKey, req |-> req, download |-> download,
             status |-> outcome = "queued",
             error |-> IF outcome = "queued" THEN "" ELSE outcome,
             nzo_ids |-> IF outcome = "queued" THEN <<id>> ELSE <<>>]
    IN /\ addResp = <<>>
       /\ IF AddURLRegisters(outcome)
          THEN \E id \in generateID :
                  /\ downloads' = AddMap(id, fileToken.Username,
                                         fileToken.Filename, fileToken.Size,
                                         req.cat)
                  /\ addResp' = resp(id)
                  /\ lastOp' = Op("AddURL", id, TRUE, Lookup(id))
          ELSE /\ downloads' = downloads
               /\ addResp' = resp(0)
               /\ lastOp' = Op("AddURL", 0, FALSE, <<>>)
       /\ UNCHANGED <<clock, syncVars, mapVars, held, searchVars, sideVars,
                      calcVars, lockVars, tokenVars>>

\* the response has gone out and the handler has returned
AddURLDone ==
    /\ addResp # <<>>
    /\ addResp' = <<>>
    /\ lastOp' = Op("AddURLDone", 0, FALSE, <<>>)
    /\ UNCHANGED <<storeVars, syncVars, mapVars, held, searchVars, sideVars,
                   calcVars, lockVars, tokenVars>>

\* Handler.handleAddURL
handleAddURL(apiKey, req, backendOk) ==
    AddURLDecoded(apiKey, req, backendOk,
                  DecodeToken(extractTokenFromURL(req.name).token))

NextAddURL ==
    \/ \E apiKey \in {"", "key"}, req \in AddURLRequests,
          backendOk \in BOOLEAN : handleAddURL(apiKey, req, backendOk)
    \/ AddURLDone
    \/ \E id \in IDs : Remove(id)

SpecAddURL == Init /\ [][NextAddURL]_vars

(***************************************************************************)
(* The claims.  lastOp names the operation that made the last step, the id *)
(* it addressed and the entry under that id before the step; After is the  *)
(* entry under that id after it.                                           *)
(***************************************************************************)
Before == lastOp.before[1]
After == downloads[lastOp.id]
Touched == lastOp.before # <<>> /\ lastOp.id \in DOMAIN downloads

\* C1 as stated: the status of a tracked transfer only moves Queued ->
\* Downloading -> {Completed, Failed}, or back to Queued by retry.
C1_StatusLifecycle ==
    (Touched /\ lastOp.op # "Add") =>
        \/ After.Status = Before.Status
        \/ Before.Status = StatusQueued /\ After.Status = StatusDownloading
        \/ Before.Status = StatusDownloading /\ After.Status \in Terminal
        \/ lastOp.op = "IncrementRetry" /\ After.Status = StatusQueued

\* C1 as amended: the status of an entry changes only by an UpdateTransfer
\* call (from any caller or from a reconciliation pass), by an IncrementRetry
\* that returns true, which sets Queued, or by an Add that reuses the id,
\* which puts a new Queued entry in its place.
C1_StatusChangesOnlyByUpdateOrRetry ==
    [][\A id \in (DOMAIN downloads) \cap (DOMAIN downloads') :
          downloads'[id].Status # downloads[id].Status =>
              /\ lastOp'.id = id
              /\ \/ lastOp'.op \in {"UpdateTransfer", "SyncUpdate"}
                 \/ /\ lastOp'.op = "IncrementRetry"
                    /\ lastOp'.ret
                    /\ downloads'[id].Status = StatusQueued
                 \/ /\ lastOp'.op = "Add"
                    /\ downloads'[id].Status = StatusQueued]_vars

\* C1 witness: a reconciliation pass has moved an entry from Queued directly
\* to Completed.
C1_Witness ==
    /\ Touched
    /\ lastOp.op = "SyncUpdate"
    /\ Before.Status = StatusQueued
    /\ After.Status = StatusCompleted

\* C2 as stated: completedAt is unset whenever the status is Queued or
\* Downloading and set whenever it is Completed or Failed.
C2_CompletedAtSetIffTerminal ==
    \A id \in DOMAIN downloads :
        (downloads[id].CompletedAt # ZeroTime) <=> (downloads[id].Status \in Terminal)

\* C3: every live entry is in exactly one of Queue() and History(), in Queue()
\* iff its status is Queued or Downloading and in History() iff it is Completed
\* or Failed; an UpdateTransfer to a terminal status leaves the entry in
\* History() and not in Queue().
C3_QueueHistoryPartition ==
    /\ \A id \in DOMAIN downloads :
          /\ (downloads[id] \in Queue) <=>
                (downloads[id].Status \in {StatusQueued, StatusDownloading})
          /\ (downloads[id] \in History) <=> (downloads[id].Status \in Terminal)
          /\ (downloads[id] \in Queue) # (downloads[id] \in History)
    /\ (Touched /\ lastOp.op = "UpdateTransfer" /\ After.Status \in Terminal) =>
          (After \in History /\ After \notin Queue)

\* C3 witness: with two entries live, an UpdateTransfer has moved one from the
\* queue list to the history list while the other is in the queue list.
C3_Witness ==
    /\ Touched
    /\ lastOp.op = "UpdateTransfer"
    /\ Before.Status = StatusDownloading
    /\ After.Status = StatusFailed
    /\ After \in History
    /\ \E id \in DOMAIN downloads : id # lastOp.id /\ downloads[id] \in Queue

\* C4: IncrementRetry on a live entry bumps Retries and returns true iff the
\* bumped Retries does not exceed MaxRetries; with MaxRetries = 3 calls one to
\* three return true and call four returns false; a call that returns false
\* leaves Status, BytesDownloaded and CompletedAt as they were.
C4_RetryAllowedIffWithinMax ==
    (Touched /\ lastOp.op = "IncrementRetry") =>
        /\ After.Retries = Before.Retries + 1
        /\ lastOp.ret <=> (After.Retries <= After.MaxRetries)
        /\ After.MaxRetries = 3
        /\ After.Retries \in 1..3 => lastOp.ret
        /\ After.Retries = 4 => ~lastOp.ret
        /\ ~lastOp.ret =>
              /\ After.Status = Before.Status
              /\ After.BytesDownloaded = Before.BytesDownloaded
              /\ After.CompletedAt = Before.CompletedAt

\* C4 witness: the fourth IncrementRetry on a Failed entry has returned false.
C4_Witness ==
    /\ Touched
    /\ lastOp.op = "IncrementRetry"
    /\ ~lastOp.ret
    /\ After.Retries = 4
    /\ Before.Status = StatusFailed
    /\ Before.CompletedAt # ZeroTime

\* C5: an IncrementRetry that returns true leaves the entry Queued with
\* BytesDownloaded 0 and CompletedAt unset, whatever its status was, and
\* Retries one higher.
C5_AllowedRetryResets ==
    (lastOp.op = "IncrementRetry" /\ lastOp.ret) =>
        /\ Touched
        /\ After.Status = StatusQueued
        /\ After.BytesDownloaded = 0
        /\ After.CompletedAt = ZeroTime
        /\ After.Retries = Before.Retries + 1

\* C5 witness: an IncrementRetry on a Completed entry with bytes and a
\* completion time has returned true.
C5_Witness ==
    /\ Touched
    /\ lastOp.op = "IncrementRetry"
    /\ lastOp.ret
    /\ Before.Status = StatusCompleted
    /\ Before.BytesDownloaded = 1000
    /\ Before.CompletedAt # ZeroTime

\* C6 as stated: Add never replaces an entry that is live, so N calls leave N
\* entries under N distinct ids.
C6_AddNeverOverwrites ==
    lastOp.op = "Add" => lastOp.before = <<>>

\* C7: the mapping gives every state string exactly one of the four statuses:
\* Completed iff it holds "Completed" and "Succeeded", Failed iff it holds
\* "Completed" without "Succeeded", Downloading iff it holds "InProgress"
\* without "Completed", Queued otherwise.
C7_OrderedRules ==
    LET completed == Contains(mapState, SubCompleted)
        succeeded == Contains(mapState, SubSucceeded)
        inProgress == Contains(mapState, SubInProgress)
    IN /\ mapStatus \in Status
       /\ (mapStatus = StatusCompleted) <=> (completed /\ succeeded)
       /\ (mapStatus = StatusFailed) <=> (completed /\ ~succeeded)
       /\ (mapStatus = StatusDownloading) <=> (~completed /\ inProgress)
       /\ (mapStatus = StatusQueued) <=> (~completed /\ ~inProgress)

\* C7 witness: a string that holds both "Completed" and "InProgress" has been
\* mapped to Failed.
C7_Witness ==
    /\ Contains(mapState, SubCompleted)
    /\ Contains(mapState, SubInProgress)
    /\ mapStatus = StatusFailed

\* C8 as stated: a reconciliation pass never changes an entry that is in a
\* terminal status at the moment the pass writes to it.
C8_PassLeavesTerminalAlone ==
    (lastOp.op \in SyncOps /\ lastOp.before # <<>> /\ Before.Status \in Terminal) =>
        (lastOp.id \in DOMAIN downloads /\ After = Before)

\* C9 as stated: a step of a reconciliation pass leaves every entry unchanged
\* whose (Username, Filename) has no transfer in the pass's transfers map.
C9_UnmatchedUntouched ==
    [][lastOp'.op \in SyncOps =>
          \A id \in DOMAIN downloads :
              TransferKey(downloads[id].Username, downloads[id].Filename)
                  \notin DOMAIN syncTransfers
              => (id \in DOMAIN downloads' /\ downloads'[id] = downloads[id])]_vars

\* the iteration of the pass now due visits a live entry that was not terminal
\* in the snapshot and has a transfer under its key
VisitsMatched ==
    /\ syncPc = "loop"
    /\ syncAll # <<>>
    /\ Head(syncAll).Status \notin Terminal
    /\ Head(syncAll).ID \in DOMAIN downloads
    /\ TransferKey(Head(syncAll).Username, Head(syncAll).Filename)
          \in DOMAIN syncTransfers

VisitedTransfer ==
    syncTransfers[TransferKey(Head(syncAll).Username, Head(syncAll).Filename)]

\* C10 as stated: a pass that finds a matching transfer whose state holds
\* "InProgress" sets the entry to Downloading with the transfer's byte count.
C10_InProgressSetsDownloading ==
    [][(lastOp'.op \in SyncOps /\ VisitsMatched
        /\ Contains(VisitedTransfer.State, SubInProgress)) =>
          /\ downloads'[Head(syncAll).ID].Status = StatusDownloading
          /\ downloads'[Head(syncAll).ID].BytesDownloaded
                = VisitedTransfer.BytesTransferred]_vars

\* C10 as amended: a pass that finds a matching transfer whose state holds
\* "InProgress" and not "Completed" sets the entry to Downloading with the
\* transfer's byte count (400 of 1000 is 40 percent); one whose state holds
\* "Completed" and "Succeeded" sets it to Completed with CompletedAt set, and
\* the entry is then in History() and not in Queue(); a pass that finds the
\* entry terminal in its snapshot changes nothing.
C10_PassAdvancesEntry ==
    [][lastOp'.op \in SyncOps =>
          /\ (VisitsMatched /\ Contains(VisitedTransfer.State, SubInProgress)
                /\ ~Contains(VisitedTransfer.State, SubCompleted)) =>
                LET dl == downloads'[Head(syncAll).ID]
                IN /\ dl.Status = StatusDownloading
                   /\ dl.BytesDownloaded = VisitedTransfer.BytesTransferred
                   /\ (dl.BytesDownloaded = 400 /\ dl.Size = 1000) => Progress(dl) = 40
          /\ (VisitsMatched /\ Contains(VisitedTransfer.State, SubCompleted)
                /\ Contains(VisitedTransfer.State, SubSucceeded)) =>
                LET dl == downloads'[Head(syncAll).ID]
                IN /\ dl.Status = StatusCompleted
                   /\ dl.BytesDownloaded = VisitedTransfer.BytesTransferred
                   /\ dl.CompletedAt # ZeroTime
                   /\ dl \in History'
                   /\ dl \notin Queue'
          /\ Head(syncAll).Status \in Terminal => downloads' = downloads]_vars

\* C10 witness: a pass has moved an entry that was Downloading with 400 of
\* 1000 bytes (40 percent) on to Completed, and it is in History().
C10_Witness ==
    /\ Touched
    /\ lastOp.op = "SyncUpdate"
    /\ Before.Status = StatusDownloading
    /\ Before.BytesDownloaded = 400
    /\ Progress(Before) = 40
    /\ After.Status = StatusCompleted
    /\ After.CompletedAt # ZeroTime
    /\ After \in History
    /\ After \notin Queue

\* the call made last, and the steps of the goroutine that runs SearchAndWait
LastCall == searchCalls[Len(searchCalls)]
SelectOps == {"SelectCtxDone", "SelectDeadline", "SelectTimer"}

\* C11 as stated: whenever ctx is cancelled while SearchAndWait waits in its
\* select, also with the deadline or the poll timer ready, the operation
\* returns the Cancelled failure and makes no further call to slskd.
C11_CancellationTakesPriority ==
    [][(searchPc = "select" /\ ctxDone /\ lastOp'.op \in SelectOps) =>
          /\ searchPc' = "returned"
          /\ searchRet'.err = "ctx.Err"
          /\ searchCalls' = searchCalls]_vars

\* C12 as stated: when the deadline case runs, the operation fetches the job
\* once with responses and returns them as a success; a timeout never makes
\* it return a failure.
C12_TimeoutNeverFails ==
    lastOp.op = "SelectDeadline" =>
        /\ LastCall.call = "GetSearch"
        /\ LastCall.includeResponses
        /\ searchRet.err = "nil"
        /\ searchRet.responses = LastCall.responses

\* C12 as amended: when the deadline case runs, the operation fetches the job
\* once with responses and returns; if that fetch succeeds it returns the
\* responses fetched (none, some or all) without an error, and if it fails it
\* returns that failure.
C12_TimeoutReturnsFetch ==
    lastOp.op = "SelectDeadline" =>
        /\ searchPc = "returned"
        /\ LastCall.call = "GetSearch"
        /\ LastCall.includeResponses
        /\ Cardinality({ i \in DOMAIN searchCalls :
              searchCalls[i].call = "GetSearch"
              /\ searchCalls[i].includeResponses }) = 1
        /\ LastCall.ok =>
              /\ searchRet.err = "nil"
              /\ searchRet.responses = LastCall.responses
        /\ ~LastCall.ok =>
              /\ searchRet.err = "get final search responses"
              /\ searchRet.responses = <<>>

\* C12 witness: after a poll that found the job incomplete the deadline case
\* has returned one response without an error.
C12_Witness ==
    /\ lastOp.op = "SelectDeadline"
    /\ PollCount >= 1
    /\ searchRet.err = "nil"
    /\ Len(searchRet.responses) = 1

\* C13: a poll that reports isComplete ends the polling; the next step of the
\* operation fetches the job with responses, starts the deletion and returns,
\* with exactly the responses fetched, in their order, when the fetch
\* succeeded; the deletion runs under context.Background() and its outcome
\* changes neither the return value nor anything else of the operation.
C13_CompletionFetchesDeletesReturns ==
    [][/\ (lastOp'.op = "SelectTimer" /\ searchCalls'[Len(searchCalls')].isComplete) =>
              (searchPc' = "complete" /\ timer' = "stopped")
       /\ (searchPc = "complete" /\ searchPc' # "complete") =>
              /\ lastOp'.op = "FetchComplete"
              /\ searchPc' = "returned"
              /\ Len(searchCalls') = Len(searchCalls) + 1
              /\ searchCalls'[Len(searchCalls')].call = "GetSearch"
              /\ searchCalls'[Len(searchCalls')].includeResponses
              /\ deleteTask' = "started"
              /\ searchCalls'[Len(searchCalls')].ok =>
                    /\ searchRet'.err = "nil"
                    /\ searchRet'.responses
                          = searchCalls'[Len(searchCalls')].responses
       /\ (searchPc = "complete" /\ searchPc' = "complete") =>
              searchCalls' = searchCalls
       /\ lastOp'.op = "DeleteSearch" =>
              /\ searchCalls'[Len(searchCalls')].call = "DeleteSearch"
              /\ searchCalls'[Len(searchCalls')].ctx = "Background"
              /\ searchRet' = searchRet
              /\ searchPc' = searchPc]_vars

\* C13 witness: the operation has returned two different responses in the
\* order fetched after a poll reported isComplete, the caller has cancelled
\* ctx, and the deletion has run all the same and failed.
C13_Witness ==
    /\ deleteTask = "done"
    /\ ctxDone
    /\ LastCall.call = "DeleteSearch"
    /\ ~LastCall.ok
    /\ Len(searchCalls) >= 4
    /\ searchCalls[Len(searchCalls) - 2].isComplete
    /\ searchRet.err = "nil"
    /\ Len(searchRet.responses) = 2
    /\ searchRet.responses[1] # searchRet.responses[2]
    /\ searchRet.responses = searchCalls[Len(searchCalls) - 1].responses

\* C14 as stated: once SearchAndWait has returned, a DeleteSearch has been
\* started for every job it had submitted, also when it returned because of
\* cancellation or timeout.
C14_SubmittedJobIsDeleted ==
    (searchPc = "returned" /\ searchCalls # <<>> /\ searchCalls[1].ok) =>
        deleteTask # "none"

\* C15: a Search that is rejected makes SearchAndWait return an error with no
\* GetSearch and no DeleteSearch made; a GetSearch that fails, poll or fetch,
\* makes it return an error with no GetSearch made after it.
C15_FailuresSurfaceWithoutRetry ==
    \A i \in DOMAIN searchCalls :
        (searchCalls[i].call \in {"Search", "GetSearch"} /\ ~searchCalls[i].ok) =>
            /\ searchPc = "returned"
            /\ searchRet.err \notin {"none", "nil"}
            /\ searchRet.responses = <<>>
            /\ \A j \in DOMAIN searchCalls :
                  j > i => searchCalls[j].call = "DeleteSearch"
            /\ searchCalls[i].call = "Search" =>
                  (Len(searchCalls) = 1 /\ deleteTask = "none")

\* C15 witness: with ctx not cancelled, the second status poll has failed and
\* SearchAndWait has returned its error.
C15_Witness ==
    /\ ~ctxDone
    /\ searchPc = "returned"
    /\ Len(searchCalls) = 3
    /\ LastCall.call = "GetSearch"
    /\ ~LastCall.includeResponses
    /\ ~LastCall.ok
    /\ searchRet.err = "get search"

\* C16: a pass whose GetAllDownloads fails changes no entry and leaves the
\* reconciler waiting in its select for the next tick; the reconciler stops
\* only when its ctx is cancelled.
C16_FailedFetchSkipsPass ==
    [][/\ lastOp'.op = "SyncFetchFails" =>
              /\ downloads' = downloads
              /\ syncPc' = "idle"
              /\ syncAll' = <<>>
       /\ syncPc' = "stopped" => syncCtxDone']_vars

\* C16 witness: with a Downloading entry in the registry and ctx not
\* cancelled, a pass has failed to fetch and the reconciler waits for the
\* next tick.
C16_Witness ==
    /\ lastOp.op = "SyncFetchFails"
    /\ ~syncCtxDone
    /\ syncPc = "idle"
    /\ \E id \in DOMAIN downloads : downloads[id].Status = StatusDownloading

\* C17: CompletedAt of an entry changes only from unset to the current time,
\* by an UpdateTransfer with a terminal status, or back to unset, by an
\* IncrementRetry that returns true; an UpdateTransfer with a terminal status
\* on an entry whose CompletedAt is unset sets it, and one on an entry whose
\* CompletedAt is set leaves it as it is.
C17_CompletedAtSetOnce ==
    [][\A id \in (DOMAIN downloads) \cap (DOMAIN downloads') :
          ~(lastOp'.op = "Add" /\ lastOp'.id = id) =>
              LET old == downloads[id]
                  new == downloads'[id]
              IN /\ new.CompletedAt # old.CompletedAt =>
                       /\ lastOp'.id = id
                       /\ \/ /\ lastOp'.op \in {"UpdateTransfer", "SyncUpdate"}
                             /\ old.CompletedAt = ZeroTime
                             /\ new.Status \in Terminal
                             /\ new.CompletedAt = clock
                          \/ /\ lastOp'.op = "IncrementRetry"
                             /\ lastOp'.ret
                             /\ new.CompletedAt = ZeroTime
                 /\ (lastOp'.op = "UpdateTransfer" /\ lastOp'.id = id
                     /\ new.Status \in Terminal) =>
                       new.CompletedAt =
                           IF old.CompletedAt = ZeroTime THEN clock
                           ELSE old.CompletedAt]_vars

\* C17 witness: an entry completed at an earlier time has been updated to
\* Failed at a later time and has kept its CompletedAt.
C17_Witness ==
    /\ Touched
    /\ lastOp.op = "UpdateTransfer"
    /\ Before.Status = StatusCompleted
    /\ After.Status = StatusFailed
    /\ Before.CompletedAt # ZeroTime
    /\ clock > Before.CompletedAt
    /\ After.CompletedAt = Before.CompletedAt

\* C18: Retries of an entry is 0 when Add creates it, grows by one on every
\* IncrementRetry, whether it returns true or false, and is changed by no
\* other operation and by no reconciliation pass; it never decreases.
C18_RetriesMonotonic ==
    [][/\ \A id \in (DOMAIN downloads') \ (DOMAIN downloads) :
              downloads'[id].Retries = 0
       /\ \A id \in (DOMAIN downloads) \cap (DOMAIN downloads') :
              IF lastOp'.op = "Add" /\ lastOp'.id = id
                  THEN downloads'[id].Retries = 0
              ELSE IF lastOp'.op = "IncrementRetry" /\ lastOp'.id = id
                  THEN downloads'[id].Retries = downloads[id].Retries + 1
              ELSE downloads'[id].Retries = downloads[id].Retries]_vars

\* C18 witness: a reconciliation pass has written to an entry whose fifth
\* IncrementRetry had returned false, and Retries is still five.
C18_Witness ==
    /\ Touched
    /\ lastOp.op = "SyncUpdate"
    /\ Before.Retries = 5
    /\ After.Retries = 5
    /\ After # Before

\* C20: UpdateTransfer on an id that is not live changes nothing; on a live id
\* it sets BytesDownloaded and Status of that entry to its arguments, stamps
\* CompletedAt when the status is terminal and it was unset, and changes no
\* other field and no other entry.
C20_UpdateTransferFrame ==
    [][\A id \in IDs, b \in ByteCounts, st \in Status :
          (lastOp'.op = "UpdateTransfer" /\ UpdateTransfer(id, b, st)) =>
              IF id \notin DOMAIN downloads
              THEN downloads' = downloads
              ELSE /\ DOMAIN downloads' = DOMAIN downloads
                   /\ \A j \in (DOMAIN downloads) \ {id} :
                         downloads'[j] = downloads[j]
                   /\ downloads'[id].BytesDownloaded = b
                   /\ downloads'[id].Status = st
                   /\ downloads'[id].CompletedAt \in
                         {downloads[id].CompletedAt, clock}
                   /\ downloads'[id] =
                         [downloads[id] EXCEPT
                             !.BytesDownloaded = b,
                             !.Status = st,
                             !.CompletedAt = downloads'[id].CompletedAt]]_vars

\* C20 witness: with two entries live, an UpdateTransfer has changed the bytes
\* and the status of one of them, and the other is still as Add created it.
C20_Witness ==
    /\ Touched
    /\ lastOp.op = "UpdateTransfer"
    /\ After.Status = StatusDownloading
    /\ Before.Status = StatusQueued
    /\ After.BytesDownloaded = 400
    /\ Before.BytesDownloaded = 0
    /\ \E j \in DOMAIN downloads :
          /\ j # lastOp.id
          /\ downloads[j].Status = StatusQueued
          /\ downloads[j].BytesDownloaded = 0

\* the operations that change the registry, and the queries that return lists
MutatorOps == {"Add", "UpdateTransfer", "IncrementRetry", "Remove"}

\* C19: Get returns nil for an id that is not live and otherwise a record
\* equal to the entry; every record Queue, History, All and FindByFile return
\* equals an entry they list; a caller's write to a record it was given
\* leaves the registry as it was, and no later Add, UpdateTransfer,
\* IncrementRetry or Remove changes a record the caller holds.
C19_QueriesReturnCopies ==
    [][/\ lastOp'.op = "Get" =>
              IF lastOp'.id \in DOMAIN downloads
              THEN /\ Len(held') = 1
                   /\ DerefIn(held'[1], downloads') = downloads[lastOp'.id]
              ELSE held' = <<>>
       /\ lastOp'.op = "FindByFile" =>
              /\ lastOp'.ret <=> held' # <<>>
              /\ \A i \in DOMAIN held' : DerefIn(held'[i], downloads') \in All
       /\ lastOp'.op = "ListQueue" =>
              { DerefIn(held'[i], downloads') : i \in DOMAIN held' } = Queue
       /\ lastOp'.op = "ListHistory" =>
              { DerefIn(held'[i], downloads') : i \in DOMAIN held' } = History
       /\ lastOp'.op = "ListAll" =>
              { DerefIn(held'[i], downloads') : i \in DOMAIN held' } = All
       /\ lastOp'.op = "HeldWrite" => downloads' = downloads
       /\ lastOp'.op \in MutatorOps =>
              /\ Len(held') = Len(held)
              /\ \A i \in DOMAIN held : DerefIn(held'[i], downloads') = Deref(held[i])]_vars

\* C19 witness: the caller holds a record that Get returned when the entry
\* was Queued and into which it has written since; the entry has been updated
\* to Completed with 1000 bytes, and each has kept its own values.
C19_Witness ==
    /\ lastOp.op = "UpdateTransfer"
    /\ Len(held) = 1
    /\ held[1].id = lastOp.id
    /\ lastOp.id \in DOMAIN downloads
    /\ Deref(held[1]).Status = StatusQueued
    /\ Deref(held[1]).BytesDownloaded = CallerMark
    /\ downloads[lastOp.id].Status = StatusCompleted
    /\ downloads[lastOp.id].BytesDownloaded = 1000

\* C21: after Remove(id) the id is not in the map, so Get(id) finds nothing,
\* and no entry of Queue(), History() or All() has that id, whatever the
\* status of the entry was; Remove of an id that is not live, as a second
\* Remove is, changes nothing; the other entries are as they were.
C21_RemoveIdempotent ==
    [][\A id \in IDs :
          (lastOp'.op = "Remove" /\ lastOp'.id = id) =>
              /\ Lookup(id)' = <<>>
              /\ \A dl \in Queue' \cup History' \cup All' : dl.ID # id
              /\ DOMAIN downloads' = (DOMAIN downloads) \ {id}
              /\ \A j \in DOMAIN downloads' : downloads'[j] = downloads[j]
              /\ id \notin DOMAIN downloads => downloads' = downloads]_vars

\* C21 witness: a Completed entry has been removed while another entry is
\* live.
C21_Witness ==
    /\ lastOp.op = "Remove"
    /\ lastOp.before # <<>>
    /\ Before.Status = StatusCompleted
    /\ lastOp.id \notin DOMAIN downloads
    /\ downloads # EmptyMap

\* C22 as stated: Add makes the registry one entry larger; the new entry has
\* the Username, Filename, Size and Category given, Status Queued,
\* BytesDownloaded 0, Retries 0, MaxRetries 3 and CompletedAt unset, and the
\* entries that were live are unchanged.
C22_AddCreatesOneEntry ==
    [][\A u \in Usernames, f \in Filenames, sz \in Sizes, c \in Categories :
          (lastOp'.op = "Add" /\ Add(u, f, sz, c)) =>
              LET id == lastOp'.id
                  new == downloads'[id]
              IN /\ Cardinality(DOMAIN downloads')
                       = Cardinality(DOMAIN downloads) + 1
                 /\ \A j \in DOMAIN downloads :
                       j \in DOMAIN downloads' /\ downloads'[j] = downloads[j]
                 /\ new.ID = id
                 /\ new.Username = u
                 /\ new.Filename = f
                 /\ new.Size = sz
                 /\ new.Category = c
                 /\ new.Status = StatusQueued
                 /\ new.BytesDownloaded = 0
                 /\ new.Retries = 0
                 /\ new.MaxRetries = 3
                 /\ new.CompletedAt = ZeroTime]_vars

\* C26 as stated: BytesDownloaded of an entry never decreases, except that an
\* IncrementRetry that returns true sets it to zero.
C26_BytesNeverDecrease ==
    [][\A id \in (DOMAIN downloads) \cap (DOMAIN downloads') :
          ~(lastOp'.op = "Add" /\ lastOp'.id = id) =>
              \/ downloads'[id].BytesDownloaded >= downloads[id].BytesDownloaded
              \/ /\ lastOp'.op = "IncrementRetry"
                 /\ lastOp'.id = id
                 /\ lastOp'.ret
                 /\ downloads'[id].BytesDownloaded = 0]_vars

\* C26 amended: BytesDownloaded of an entry changes only by UpdateTransfer,
\* called directly or by a reconciliation pass, which sets it to the value it
\* is given, lower than the present one or not, and by an IncrementRetry that
\* returns true, which sets it to zero.
C26_BytesSetAsGiven ==
    [][\A id \in (DOMAIN downloads) \cap (DOMAIN downloads') :
          ~(lastOp'.op = "Add" /\ lastOp'.id = id) =>
              \/ downloads'[id].BytesDownloaded = downloads[id].BytesDownloaded
                 /\ lastOp'.op \notin {"UpdateTransfer", "SyncUpdate"}
              \/ /\ lastOp'.op = "UpdateTransfer"
                 /\ \E b \in ByteCounts, st \in Status :
                       /\ UpdateTransfer(lastOp'.id, b, st)
                       /\ lastOp'.id = id => downloads'[id].BytesDownloaded = b
                       /\ lastOp'.id # id => downloads'[id] = downloads[id]
              \/ /\ lastOp'.op = "SyncUpdate"
                 /\ LET dl == Head(syncAll)
                        t == syncTransfers[TransferKey(dl.Username, dl.Filename)]
                    IN /\ lastOp'.id = id =>
                             downloads'[id].BytesDownloaded = t.BytesTransferred
                       /\ lastOp'.id # id => downloads'[id] = downloads[id]
              \/ /\ lastOp'.op = "IncrementRetry"
                 /\ lastOp'.id = id
                 /\ lastOp'.ret
                 /\ downloads'[id].BytesDownloaded = 0]_vars

\* C26 witness: a reconciliation pass has taken an entry from 400 bytes to
\* the 0 bytes the backend reports for it.
C26_Witness ==
    /\ Touched
    /\ lastOp.op = "SyncUpdate"
    /\ Before.BytesDownloaded = 400
    /\ After.BytesDownloaded = 0

\* C27: for as long as an entry is live, its ID, Username, Filename, Size,
\* Category, AddedAt and MaxRetries are as Add set them, whatever
\* UpdateTransfer, IncrementRetry, SetTransferID and the reconciliation
\* passes do.
C27_CreationFieldsImmutable ==
    [][\A id \in (DOMAIN downloads) \cap (DOMAIN downloads') :
          ~(lastOp'.op = "Add" /\ lastOp'.id = id) =>
              /\ downloads'[id].ID = downloads[id].ID
              /\ downloads'[id].Username = downloads[id].Username
              /\ downloads'[id].Filename = downloads[id].Filename
              /\ downloads'[id].Size = downloads[id].Size
              /\ downloads'[id].Category = downloads[id].Category
              /\ downloads'[id].AddedAt = downloads[id].AddedAt
              /\ downloads'[id].MaxRetries = downloads[id].MaxRetries]_vars

\* C27 witness: an entry that has been retried and given a transfer id has
\* been set to Failed with 400 bytes by a pass, and still has the id, the
\* user, the file, the size, the category and MaxRetries of its creation.
C27_Witness ==
    /\ Touched
    /\ lastOp.op = "SyncUpdate"
    /\ After.Status = StatusFailed
    /\ After.BytesDownloaded = 400
    /\ After.Retries >= 1
    /\ After.TransferID = "t1"
    /\ After.ID = lastOp.id
    /\ After.Size = 1000
    /\ After.MaxRetries = 3
    /\ After.Username = Before.Username
    /\ After.Filename = Before.Filename
    /\ After.Category = Before.Category

\* C28: the delay a poll resets the timer to is 5 s when no file has been
\* reported, 1 s when half of fileLimit has, 5 s when fileLimit or more has,
\* and for every file count it is at least 0.5 s and at most 5 s.
C28_DelayCurve ==
    delayPoll # <<>> =>
        /\ delayPoll.FileCount = 0 =>
              delayPoll.delay = 5 * DelayUnitsPerSecond
        /\ 2 * delayPoll.FileCount = fileLimit =>
              delayPoll.delay = 1 * DelayUnitsPerSecond
        /\ delayPoll.FileCount >= fileLimit =>
              delayPoll.delay = 5 * DelayUnitsPerSecond
        /\ 2 * delayPoll.delay >= DelayUnitsPerSecond
        /\ delayPoll.delay <= 5 * DelayUnitsPerSecond

\* C28 witness: a poll has reported half of fileLimit and the timer has been
\* reset to 1 s.
C28_Witness ==
    /\ delayPoll # <<>>
    /\ delayPoll.FileCount = 5000
    /\ delayPoll.delay = DelayUnitsPerSecond

InCritical(p) == lockPc[p] = "critical"

\* C30: no goroutine is inside Add, UpdateTransfer, IncrementRetry, Remove or
\* SetTransferID while another goroutine is inside any method of the Store;
\* goroutines inside the reading methods may be so together.
C30_MutatorsExcludeAll ==
    \A p \in Procs, q \in Procs :
        (p # q /\ InCritical(p) /\ InCritical(q)) =>
            /\ lockOp[p] \in {"Get", "Queue", "History", "All", "FindByFile"}
            /\ lockOp[q] \in {"Get", "Queue", "History", "All", "FindByFile"}

\* C30 witness: two goroutines are inside Get and All together while a third
\* waits to enter SetTransferID.
C30_Witness ==
    \E p \in Procs, q \in Procs, r \in Procs :
        /\ InCritical(p) /\ lockOp[p] = "Get"
        /\ InCritical(q) /\ lockOp[q] = "All"
        /\ p # q
        /\ lockPc[r] = "blocked" /\ lockOp[r] = "SetTransferID"

C24_DecodeRejectsIncomplete ==
    (tokCall # <<>> /\ tokCall.op = "Decode") =>
        /\ tokCall.class = "malformed" => tokCall.out.err = "decode base64"
        /\ tokCall.class \in {"unparsable", "incomplete"} =>
              tokCall.out.err = "unmarshal token"
        /\ tokCall.out.err # "none" => tokCall.out.tok = <<>>

\* C25: addurl returns status false and leaves the registry as it was when
\* the API key is wrong, the URL has no token, the token does not decode or
\* slskd refuses the download; otherwise slskd has accepted the download of
\* the decoded token, the entry under the id returned is a new Queued entry
\* with the token's owner, path and size and the request's category, and the
\* entries under the other ids are as they were.
C25_AddURLAddsAfterBackend ==
    [][lastOp'.op = "AddURL" =>
          LET r == addResp'
              wrongKey == r.apiKey # "" /\ r.req.apikey # r.apiKey
              noToken == r.req.name.raw # "url" \/ r.req.name.id = <<>>
              decoded == DecodeToken(r.req.name.id)
              refused == r.download = <<>> \/ ~r.download[1].ok
          IN IF wrongKey \/ noToken \/ decoded.err # "none" \/ refused
             THEN /\ downloads' = downloads
                  /\ ~r.status
                  /\ r.nzo_ids = <<>>
             ELSE /\ r.status
                  /\ r.nzo_ids = <<lastOp'.id>>
                  /\ r.download[1].Username = decoded.tok[1].Username
                  /\ r.download[1].Filename = decoded.tok[1].Filename
                  /\ r.download[1].Size = decoded.tok[1].Size
                  /\ lastOp'.id \in DOMAIN downloads'
                  /\ downloads'[lastOp'.id].ID = lastOp'.id
                  /\ downloads'[lastOp'.id].Username = decoded.tok[1].Username
                  /\ downloads'[lastOp'.id].Filename = decoded.tok[1].Filename
                  /\ downloads'[lastOp'.id].Size = decoded.tok[1].Size
                  /\ downloads'[lastOp'.id].Category = r.req.cat
                  /\ downloads'[lastOp'.id].Status = StatusQueued
                  /\ downloads'[lastOp'.id].BytesDownloaded = 0
                  /\ \A j \in DOMAIN downloads' \ {lastOp'.id} :
                        j \in DOMAIN downloads /\ downloads'[j] = downloads[j]
                  /\ \A j \in DOMAIN downloads \ {lastOp'.id} :
                        j \in DOMAIN downloads']_vars

\* C25 witness: an addurl with the right key and a token for "u1", "f", 1000
\* has been accepted by slskd and the entry is in the registry under the id
\* returned, while an entry made earlier is live under the other id.
C25_Witness ==
    /\ lastOp.op = "AddURL"
    /\ addResp # <<>>
    /\ addResp.status
    /\ addResp.apiKey = "key"
    /\ addResp.nzo_ids = <<lastOp.id>>
    /\ addResp.download # <<>>
    /\ addResp.download[1].ok
    /\ lastOp.id \in DOMAIN downloads
    /\ downloads[lastOp.id].Username = <<117, 49>>
    /\ downloads[lastOp.id].Size = 1000
    /\ downloads[lastOp.id].Status = StatusQueued
    /\ Cardinality(DOMAIN downloads) = 2

(***************************************************************************)
(* SearchAndWait, its calls in flight.                                     *)
(***************************************************************************)

\* C31 as stated: the ctx is acted upon at the select only; a status poll or
\* a fetch that was issued before the ctx was cancelled returns what slskd
\* answers, also when the ctx is cancelled while the call is in flight.
C31_InFlightCallCompletes ==
    (/\ lastOp.op = "CallReturn"
     /\ lastOp.before[1].site # "search"
     /\ ~lastOp.before[1].cancelled) =>
        /\ LastCall.ok = lastOp.before[1].ok
        /\ LastCall.isComplete = lastOp.before[1].isComplete
        /\ LastCall.responses = lastOp.before[1].responses

\* C31 as amended: the ctx is acted upon at the select and inside the
\* calls; a status poll or a fetch whose response has not been read when
\* the ctx is cancelled returns an error whatever slskd answers, and
\* SearchAndWait returns an error after it without another GetSearch, having
\* started the deletion when the call was a fetch; a call returns what slskd
\* answers when the ctx is not cancelled.
C31_InFlightCallAborted ==
    (lastOp.op = "CallReturn" /\ lastOp.before[1].site # "search") =>
        /\ ctxDone =>
              /\ ~LastCall.ok
              /\ searchPc = "returned"
              /\ searchRet.err \in {"get search", "get search responses",
                                    "get final search responses"}
              /\ searchRet.responses = <<>>
              /\ flight = {}
              /\ lastOp.before[1].site \in {"final", "fetch"}
                    <=> deleteTask = "started"
        /\ ~ctxDone =>
              /\ LastCall.ok = lastOp.before[1].ok
              /\ LastCall.isComplete = lastOp.before[1].isComplete
              /\ LastCall.responses = lastOp.before[1].responses

\* C31 witness: a status poll was issued with the ctx not cancelled, the ctx
\* was cancelled while it was in flight, slskd answered that the job was
\* complete, and the poll has returned an error, which SearchAndWait has
\* returned.
C31_Witness ==
    /\ lastOp.op = "CallReturn"
    /\ lastOp.before[1].site = "poll"
    /\ ~lastOp.before[1].cancelled
    /\ lastOp.before[1].ok
    /\ lastOp.before[1].isComplete
    /\ ctxDone
    /\ ~LastCall.ok
    /\ searchPc = "returned"
    /\ searchRet.err = "get search"

\* C32: one SearchAndWait has at most one call outstanding; it issues a
\* status poll only when no call of its own is in flight, the poll timer has
\* fired and Search and every poll before have returned without an error;
\* the timer is set only by the return of Search or of a poll, and fires
\* only after that.
C32_OnePollAtATime ==
    [][/\ Cardinality(flight') <= 1
       /\ (\E c \in flight' \ flight : c.site = "poll") =>
              /\ flight = {}
              /\ timer = "fired"
              /\ searchCalls # <<>>
              /\ searchCalls[1].call = "Search"
              /\ \A i \in DOMAIN searchCalls :
                    /\ searchCalls[i].ok
                    /\ i > 1 => (/\ searchCalls[i].call = "GetSearch"
                                 /\ ~searchCalls[i].includeResponses
                                 /\ ~searchCalls[i].isComplete)
       /\ (timer # "armed" /\ timer' = "armed") =>
              /\ lastOp'.op = "CallReturn"
              /\ lastOp'.before[1].site \in {"search", "poll"}
              /\ flight' = {}
       /\ (timer # "fired" /\ timer' = "fired") =>
              (timer = "armed" /\ lastOp'.op = "TimerFires")]_vars

\* C32 witness: the first status poll has returned, the timer has been reset
\* and has fired, and the second status poll is in flight, alone.
C32_Witness ==
    /\ searchPc = "poll"
    /\ PollCount = 1
    /\ Len(searchCalls) = 2
    /\ Cardinality(flight) = 1
    /\ \A c \in flight : c.site = "poll"

(***************************************************************************)
(* The queue and the history read by two calls.                            *)
(***************************************************************************)

\* C33 as stated: of the entries that stay live across the two calls, every
\* one is in exactly one of the two results.
C33_TwoCallsPartition ==
    Len(listed) = 2 =>
        \A id \in DOMAIN listed[1].status :
            (id \in listed[1].ids) # (id \in listed[2].ids)

\* C33 as amended: of the entries that are live at both calls, every one
\* that is terminal at both or at neither is in exactly one of the two
\* results; one that became terminal in between is in both results when the
\* queue was read first and in neither when the history was.
C33_TwoCallsPartitionUnchanged ==
    Len(listed) = 2 =>
        \A id \in (DOMAIN listed[1].status) \cap (DOMAIN listed[2].status) :
            LET was == listed[1].status[id] \in Terminal
                is == listed[2].status[id] \in Terminal
            IN /\ was = is =>
                     (id \in listed[1].ids) # (id \in listed[2].ids)
               /\ (~was /\ is) =>
                     (id \in listed[1].ids)
                        = (id \in listed[2].ids)
               /\ (~was /\ is) =>
                     (id \in listed[1].ids <=> listed[1].call = "Queue")

\* C33 witness: a caller has read the history and then the queue; an entry
\* live at both calls was Downloading at the first, a pass of the reconciler
\* made it Failed in between, and it is in neither result.
C33_Witness ==
    /\ Len(listed) = 2
    /\ listed[1].call = "History"
    /\ \E id \in (DOMAIN listed[1].status) \cap (DOMAIN listed[2].status) :
          /\ listed[1].status[id] = StatusDownloading
          /\ listed[2].status[id] = StatusFailed
          /\ id \notin listed[1].ids
          /\ id \notin listed[2].ids

(***************************************************************************)
(* The reconciler and Remove.                                              *)
(***************************************************************************)

\* C34: an iteration of the range loop of syncOnce whose snapshot entry has
\* been removed since All() ran changes nothing, so the id stays absent; an
\* id becomes live by Add only, and no step but Add makes more than the ids
\* live before it live.
C34_RemovedStaysRemoved ==
    [][/\ (lastOp'.op \in SyncOps /\ lastOp'.id \notin DOMAIN downloads) =>
              /\ downloads' = downloads
              /\ lastOp'.id \notin DOMAIN downloads'
       /\ lastOp'.op # "Add" =>
              (DOMAIN downloads') \subseteq (DOMAIN downloads)
       /\ lastOp'.op = "Add" =>
              DOMAIN downloads' = (DOMAIN downloads) \cup {lastOp'.id}]_vars

\* C34 witness: a pass took its snapshot with an entry in it, the entry was
\* removed, and the pass has then called UpdateTransfer for it: the
\* registry is empty.
C34_Witness ==
    /\ lastOp.op = "SyncUpdate"
    /\ lastOp.before = <<>>
    /\ downloads = EmptyMap

\* an entry as a retry that was allowed leaves it
Retried(dl) ==
    /\ dl.Status = StatusQueued
    /\ dl.BytesDownloaded = 0
    /\ dl.CompletedAt = ZeroTime
    /\ dl.Retries > 0

\* C35: when a pass that took its snapshot after the retry comes to an
\* entry that a retry has reset, and the response of slskd holds a transfer
\* under the key of the entry whose state contains "Completed" and not
\* "Succeeded", the pass makes the entry Failed again, with the bytes of the
\* transfer, and stamps CompletedAt; IncrementRetry itself changes the
\* registry only and makes no call to slskd.
C35_PassFailsRetriedEntryAgain ==
    [][/\ (/\ syncPc = "loop"
           /\ lastOp'.op \in SyncOps
           /\ Head(syncAll).ID \in DOMAIN downloads
           /\ SyncView(downloads[Head(syncAll).ID]) = Head(syncAll)
           /\ Retried(downloads[Head(syncAll).ID])
           /\ TransferKey(Head(syncAll).Username, Head(syncAll).Filename)
                 \in DOMAIN syncTransfers
           /\ LET t == syncTransfers[TransferKey(Head(syncAll).Username,
                                                 Head(syncAll).Filename)]
              IN Contains(t.State, SubCompleted)
                 /\ ~Contains(t.State, SubSucceeded)) =>
              LET id == Head(syncAll).ID
                  t == syncTransfers[TransferKey(Head(syncAll).Username,
                                                 Head(syncAll).Filename)]
              IN /\ lastOp'.op = "SyncUpdate"
                 /\ downloads' = [downloads EXCEPT
                        ![id].Status = StatusFailed,
                        ![id].BytesDownloaded = t.BytesTransferred,
                        ![id].CompletedAt = clock]
                 /\ clock # ZeroTime
       /\ lastOp'.op = "IncrementRetry" =>
              UNCHANGED <<syncVars, searchVars, flightVars, addVars>>]_vars

\* C35 witness: an entry that was retried once and was Queued with no bytes
\* has been made Failed again by a pass, with the 400 bytes of a transfer
\* that slskd reports as completed without success.
C35_Witness ==
    /\ lastOp.op = "SyncUpdate"
    /\ lastOp.before # <<>>
    /\ Retried(lastOp.before[1])
    /\ lastOp.id \in DOMAIN downloads
    /\ downloads[lastOp.id].Status = StatusFailed
    /\ downloads[lastOp.id].BytesDownloaded = 400
    /\ downloads[lastOp.id].CompletedAt # ZeroTime
    /\ downloads[lastOp.id].Retries = 1

(***************************************************************************)
(* Retries that are used up.                                               *)
(***************************************************************************)

\* IncrementRetry has returned false for this entry: its Retries are above
\* its MaxRetries
Exhausted(dl) == dl.Retries > dl.MaxRetries

\* C36: an IncrementRetry of a live entry that returns false leaves the
\* entry with its retries used up, and no step but the removal or the
\* replacement of the entry ends that; IncrementRetry of an entry whose
\* retries are used up returns false and changes nothing but Retries;
\* IncrementRetry of an id that is not live returns false and changes
\* nothing.
C36_ExhaustionIsPermanent ==
    [][/\ (lastOp'.op = "IncrementRetry" /\ lastOp'.before = <<>>) =>
              (~lastOp'.ret /\ downloads' = downloads)
       /\ (/\ lastOp'.op = "IncrementRetry"
           /\ lastOp'.before # <<>>
           /\ ~lastOp'.ret) =>
              Exhausted(downloads'[lastOp'.id])
       /\ (/\ lastOp'.op = "IncrementRetry"
           /\ lastOp'.before # <<>>
           /\ Exhausted(lastOp'.before[1])) =>
              /\ ~lastOp'.ret
              /\ downloads' = [downloads EXCEPT
                     ![lastOp'.id].Retries = @ + 1]
       /\ \A id \in (DOMAIN downloads) \cap (DOMAIN downloads') :
              (Exhausted(downloads[id])
               /\ ~(lastOp'.op = "Add" /\ lastOp'.id = id)) =>
                  Exhausted(downloads'[id])]_vars

\* C36 witness: IncrementRetry has returned false for an entry whose
\* retries were used up before, a Failed entry with bytes and CompletedAt
\* set, and has left these as they were.
C36_Witness ==
    /\ lastOp.op = "IncrementRetry"
    /\ ~lastOp.ret
    /\ lastOp.before # <<>>
    /\ Exhausted(lastOp.before[1])
    /\ lastOp.before[1].Status = StatusFailed
    /\ lastOp.id \in DOMAIN downloads
    /\ downloads[lastOp.id].Status = StatusFailed
    /\ downloads[lastOp.id].BytesDownloaded = 400
    /\ downloads[lastOp.id].CompletedAt # ZeroTime

(***************************************************************************)
(* SearchAndWait comes to an end.                                          *)
(***************************************************************************)

\* the status polls issued after the deadline had passed, returned or not
LatePolls ==
    Cardinality({ i \in DOMAIN searchCalls :
        /\ searchCalls[i].call = "GetSearch"
        /\ searchCalls[i].site = "poll"
        /\ searchCalls[i].late })
    + Cardinality({ c \in flight : c.site = "poll" /\ c.late })

CallsWhere(call, includeResponses) ==
    { i \in DOMAIN searchCalls :
        /\ searchCalls[i].call = call
        /\ searchCalls[i].includeResponses = includeResponses }

\* C38: one SearchAndWait makes at most one DeleteSearch; the goroutine that
\* makes it is started when the GetSearch with responses has returned, with
\* or without an error, and not before: as long as that call has not
\* returned no deletion is started, and once it has, one is.
C38_DeleteOnceAfterFetch ==
    /\ Cardinality(CallsWhere("DeleteSearch", FALSE)) <= 1
    /\ Cardinality(CallsWhere("GetSearch", TRUE)) <= 1
    /\ deleteTask # "none" <=> CallsWhere("GetSearch", TRUE) # {}
    /\ deleteTask = "done" <=> CallsWhere("DeleteSearch", FALSE) # {}
    /\ (\E c \in flight : c.site \in {"final", "fetch"}) =>
          deleteTask = "none"
    /\ \A d \in CallsWhere("DeleteSearch", FALSE) :
          /\ d = Len(searchCalls)
          /\ d - 1 \in CallsWhere("GetSearch", TRUE)

\* C38 witness: the fetch of a job that is complete has failed, and the
\* deletion has been made all the same, after it.
C38_Witness ==
    /\ deleteTask = "done"
    /\ Len(searchCalls) = 4
    /\ searchCalls[3].site = "fetch"
    /\ ~searchCalls[3].ok
    /\ searchCalls[4].call = "DeleteSearch"
    /\ searchRet.err = "get search responses"

(***************************************************************************)
(* Entries under one key.                                                  *)
(***************************************************************************)

\* the entries of the snapshot that the pass has still to visit
ToVisit == { syncAll[i].ID : i \in DOMAIN syncAll }

\* C39: in a pass that no caller interleaves with, every entry of the
\* snapshot that is not terminal and has a transfer under its key is
\* written, with the status that the state of that transfer maps to and
\* with its bytes, whatever other entries have the same key; the transfers
\* are the same for the whole pass, so the entries under one key that the
\* pass has written have the same status and the same bytes.
C39_SameKeySameWrite ==
    [][(syncPc = "loop" /\ lastOp'.op \in SyncOps) =>
          LET dl == Head(syncAll)
              key == TransferKey(dl.Username, dl.Filename)
          IN /\ syncPc' = "loop" => syncTransfers' = syncTransfers
             /\ (dl.Status \notin Terminal /\ key \in DOMAIN syncTransfers) =>
                   /\ lastOp'.op = "SyncUpdate"
                   /\ dl.ID \in DOMAIN downloads'
                   /\ downloads'[dl.ID].Status
                         = MapState(syncTransfers[key].State)
                   /\ downloads'[dl.ID].BytesDownloaded
                         = syncTransfers[key].BytesTransferred
                   /\ \A i \in (DOMAIN downloads') \ (ToVisit \cup {dl.ID}) :
                         (/\ downloads'[i].Username = dl.Username
                          /\ downloads'[i].Filename = dl.Filename
                          /\ downloads'[i].Status \notin Terminal) =>
                             /\ downloads'[i].Status
                                   = downloads'[dl.ID].Status
                             /\ downloads'[i].BytesDownloaded
                                   = downloads'[dl.ID].BytesDownloaded]_vars

\* C39 witness: two entries under one key were Queued with no bytes, and a
\* pass has made both Downloading with the 400 bytes of the one transfer
\* slskd reports under that key.
C39_Witness ==
    /\ lastOp.op = "SyncUpdate"
    /\ syncPc = "idle"
    /\ lastOp.before # <<>>
    /\ lastOp.before[1].Status = StatusQueued
    /\ \E a, b \in DOMAIN downloads :
          /\ a # b
          /\ b = lastOp.id
          /\ downloads[a].Username = downloads[b].Username
          /\ downloads[a].Filename = downloads[b].Filename
          /\ downloads[a].Status = StatusDownloading
          /\ downloads[b].Status = StatusDownloading
          /\ downloads[a].BytesDownloaded = 400
          /\ downloads[b].BytesDownloaded = 400

(***************************************************************************)
(* The mutex of the Store is always given back.                            *)
(***************************************************************************)

\* C40: the goroutines that hold Store.mu are those inside a method of the
\* Store, each holding it once; a goroutine in a call to slskd or between
\* two methods holds nothing, and a method that has the mutex leaves with
\* the mutex released.  So every call of a method gets the mutex and every
\* method returns, whatever the other goroutines do and also when calls to
\* slskd never return.
C40_NoCallBlocksForever ==
    /\ [](/\ muWriter <=> \E p \in Procs :
                  InCritical(p) /\ LockKind(lockOp[p]) = "Lock"
          /\ muReaders = Cardinality({ p \in Procs :
                  InCritical(p) /\ LockKind(lockOp[p]) = "RLock" })
          /\ muPending = Cardinality({ p \in Procs :
                  lockPc[p] = "blocked" /\ LockKind(lockOp[p]) = "Lock" })
          /\ \A p \in Procs :
                lockPc[p] \in {"idle", "backend"} <=> lockOp[p] = "none")
    /\ [][\A p \in Procs :
            /\ (InCritical(p) /\ ~InCritical(p)') => lockPc'[p] = "idle"
            /\ (~InCritical(p) /\ InCritical(p)') => lockPc[p] = "blocked"
            /\ lockPc'[p] = "backend" => lockPc[p] \in {"idle", "backend"}]_vars
    /\ \A p \in Procs : (lockPc[p] = "blocked") ~> InCritical(p)
    /\ \A p \in Procs : InCritical(p) ~> (lockPc[p] = "idle")

\* C40 witness: one goroutine is in a call to slskd, one is inside
\* UpdateTransfer, and one waits for the read lock of All.
C40_Witness ==
    \E p \in Procs, q \in Procs, r \in Procs :
        /\ lockPc[p] = "backend"
        /\ InCritical(q) /\ lockOp[q] = "UpdateTransfer"
        /\ lockPc[r] = "blocked" /\ lockOp[r] = "All"

====
